---- MODULE Spec2Model ----
(***************************************************************************)
(* PDF text editor: the document store (useDocumentStore), its undo/redo   *)
(* history and the selection state.                                        *)
(*                                                                         *)
(* The zustand store is one state object: get() returns it and             *)
(* set(partial) merges a partial object into it.  It is modelled as the    *)
(* record variable doc; every store action is an operator from the store   *)
(* state (and the call's arguments) to the next store state, wrapped in    *)
(* one TLA+ action per store action.                                       *)
(*                                                                         *)
(* Numbers: zoom is kept in hundredths (1.0 is 100, 0.25 is 25, 4 is 400), *)
(* lengths are in PDF points.                                              *)
(***************************************************************************)
EXTENDS Integers, Sequences, FiniteSets, TLC

VARIABLES
    doc,      \* state of useDocumentStore (DocumentState)
    lastOp,   \* history variable: name of the store action called last
    law,      \* history variable: what loadPDF replaced (Spec, SpecHistory) and the
              \* bookkeeping of the undo/redo scenarios (SpecLaw)
    loads,    \* files handleFileChange is waiting for (loadPDFFromFile not settled)
    exports,  \* exports handleExport is waiting for (exportPDF not settled)
    events,   \* what the handler that settled last showed the user: alerts, downloads
    editor,   \* state of useEditorStore (EditorPreferences)
    probe,    \* arguments and result of the last call of a pure utility function
    overlay   \* local state of the TextBoxOverlay the pointer gesture is on

\* the variables outside the document store
appVars == <<loads, exports, events, editor, probe, overlay>>

vars == <<doc, lastOp, law, loads, exports, events, editor, probe, overlay>>

(***************************************************************************)
(* Bounds of the model                                                     *)
(***************************************************************************)
\* Spec: saveHistory is called while history.past holds fewer snapshots than this
MaxPast == 1
\* SpecHistory: the same, with no selection or viewport action to multiply it
MaxHist == 2
\* SpecLaw: at most this many snapshot-then-mutate steps in a scenario
LawLen == 2
\* undo/redo sequences tried after a load are at most this long
URLen == 3

(***************************************************************************)
(* Values                                                                  *)
(***************************************************************************)
\* JavaScript null (fileName, pdfData, selectedBoxId) and undefined (optional fields)
NULL == "null"

\* zoom: Math.max(0.25, Math.min(4, zoom)), in hundredths
ZoomMin == 25
ZoomMax == 400
ZoomInitial == 100

Min(a, b) == IF a < b THEN a ELSE b
Max(a, b) == IF a > b THEN a ELSE b

\* JavaScript truthiness of a string | null
Truthy(v) == v # NULL /\ v # ""

\* object spread { ...box, ...updates }
Merge(box, updates) ==
    [f \in (DOMAIN box) \cup (DOMAIN updates) |->
        IF f \in DOMAIN updates THEN updates[f] ELSE box[f]]

\* a TextBox as handlePageClick builds it, on page pageIndex with the given id
NewTextBox(id, pageIndex) ==
    [id |-> id, pageIndex |-> pageIndex,
     x |-> 72, y |-> 72, width |-> 200, height |-> 50,
     text |-> "New Text", fontFamily |-> "Helvetica", fontSize |-> 12,
     color |-> "#000000", fontWeight |-> "normal", textAlign |-> "left",
     backgroundColor |-> NULL, mode |-> "overlay"]

\* a PageState as extractPageInfo builds it
NewPage(index, width, height) ==
    [index |-> index, width |-> width, height |-> height, textBoxes |-> <<>>]

(***************************************************************************)
(* The document store                                                      *)
(***************************************************************************)
initialState ==
    [fileName |-> NULL,
     pdfData |-> NULL,
     numPages |-> 0,
     pages |-> <<>>,
     zoom |-> ZoomInitial,
     panOffset |-> [x |-> 0, y |-> 0],
     selection |-> [selectedBoxId |-> NULL, isEditing |-> FALSE],
     history |-> [past |-> <<>>, future |-> <<>>, canUndo |-> FALSE, canRedo |-> FALSE],
     isLoaded |-> FALSE]

\* loadPDF without the reset of history
loadPDF_keepsHistory(s, fileName, pdfData, numPages, pages) ==
    [s EXCEPT !.fileName = fileName,
              !.pdfData = pdfData,
              !.numPages = numPages,
              !.pages = pages,
              !.isLoaded = TRUE,
              !.zoom = ZoomInitial,
              !.panOffset = [x |-> 0, y |-> 0],
              !.selection = [selectedBoxId |-> NULL, isEditing |-> FALSE]]

loadPDF(s, fileName, pdfData, numPages, pages) ==
    [s EXCEPT !.fileName = fileName,
              !.pdfData = pdfData,
              !.numPages = numPages,
              !.pages = pages,
              !.isLoaded = TRUE,
              !.zoom = ZoomInitial,
              !.panOffset = [x |-> 0, y |-> 0],
              !.selection = [selectedBoxId |-> NULL, isEditing |-> FALSE],
              !.history = [past |-> <<>>, future |-> <<>>,
                           canUndo |-> FALSE, canRedo |-> FALSE]]

clearDocument(s) == initialState

\* setZoom without the lower bound
setZoom_noFloor(s, zoom) == [s EXCEPT !.zoom = Min(ZoomMax, zoom)]

setZoom(s, zoom) == [s EXCEPT !.zoom = Max(ZoomMin, Min(ZoomMax, zoom))]

setPanOffset(s, offset) == [s EXCEPT !.panOffset = offset]

\* addTextBox with an out-of-range page index clamped to the nearest page
addTextBox_clamps(s, textBox) ==
    LET pageIndex == Max(0, Min(textBox.pageIndex, Len(s.pages) - 1)) IN
    IF Len(s.pages) > 0
    THEN [s EXCEPT !.pages[pageIndex + 1].textBoxes = Append(@, textBox)]
    ELSE s

\* pages are 0-based in the code: pages[i] of the code is s.pages[i + 1]
addTextBox(s, textBox) ==
    LET pageIndex == textBox.pageIndex IN
    IF pageIndex >= 0 /\ pageIndex < Len(s.pages)
    THEN [s EXCEPT !.pages[pageIndex + 1].textBoxes = Append(@, textBox)]
    ELSE s

updateTextBox(s, id, updates) ==
    [s EXCEPT !.pages =
        [i \in DOMAIN s.pages |->
            [s.pages[i] EXCEPT !.textBoxes =
                [k \in DOMAIN s.pages[i].textBoxes |->
                    LET box == s.pages[i].textBoxes[k] IN
                    IF box.id = id THEN Merge(box, updates) ELSE box]]]]

\* deleteTextBox with the filter keeping the boxes that match
deleteTextBox_keepsMatching(s, id) ==
    LET Same(box) == box.id = id IN
    [s EXCEPT !.pages =
                [i \in DOMAIN s.pages |->
                    [s.pages[i] EXCEPT !.textBoxes = SelectSeq(@, Same)]],
              !.selection = [selectedBoxId |-> NULL, isEditing |-> FALSE]]

\* Array.prototype.filter is SelectSeq
deleteTextBox(s, id) ==
    LET Other(box) == box.id # id IN
    [s EXCEPT !.pages =
                [i \in DOMAIN s.pages |->
                    [s.pages[i] EXCEPT !.textBoxes = SelectSeq(@, Other)]],
              !.selection = [selectedBoxId |-> NULL, isEditing |-> FALSE]]

selectTextBox(s, id) ==
    [s EXCEPT !.selection = [selectedBoxId |-> id, isEditing |-> FALSE]]

\* enterEditMode without the check for a selection
enterEditMode_unguarded(s) == [s EXCEPT !.selection.isEditing = TRUE]

enterEditMode(s) ==
    IF Truthy(s.selection.selectedBoxId)
    THEN [s EXCEPT !.selection.isEditing = TRUE]
    ELSE s

exitEditMode(s) == [s EXCEPT !.selection.isEditing = FALSE]

\* saveHistory with future kept
saveHistory_keepsFuture(s) ==
    LET historyState == [pages |-> s.pages] IN
    [s EXCEPT !.history = [past |-> Append(s.history.past, historyState),
                           future |-> s.history.future,
                           canUndo |-> TRUE,
                           canRedo |-> Len(s.history.future) > 0]]

saveHistory(s) ==
    LET historyState == [pages |-> s.pages] IN
    [s EXCEPT !.history = [past |-> Append(s.history.past, historyState),
                           future |-> <<>>,
                           canUndo |-> TRUE,
                           canRedo |-> FALSE]]

\* undo with the current pages pushed at the far end of future
undo_appendsFuture(s) ==
    IF Len(s.history.past) = 0 THEN s
    ELSE
        LET previous == s.history.past[Len(s.history.past)]
            newPast == SubSeq(s.history.past, 1, Len(s.history.past) - 1)
            currentState == [pages |-> s.pages]
        IN [s EXCEPT !.pages = previous.pages,
                     !.history = [past |-> newPast,
                                  future |-> Append(s.history.future, currentState),
                                  canUndo |-> Len(newPast) > 0,
                                  canRedo |-> TRUE],
                     !.selection = [selectedBoxId |-> NULL, isEditing |-> FALSE]]

\* undo with the selection cleared before the check for an empty past
undo_clearsFirst(s) ==
    IF Len(s.history.past) = 0
    THEN [s EXCEPT !.selection = [selectedBoxId |-> NULL, isEditing |-> FALSE]]
    ELSE
        LET previous == s.history.past[Len(s.history.past)]
            newPast == SubSeq(s.history.past, 1, Len(s.history.past) - 1)
            currentState == [pages |-> s.pages]
        IN [s EXCEPT !.pages = previous.pages,
                     !.history = [past |-> newPast,
                                  future |-> <<currentState>> \o s.history.future,
                                  canUndo |-> Len(newPast) > 0,
                                  canRedo |-> TRUE],
                     !.selection = [selectedBoxId |-> NULL, isEditing |-> FALSE]]

\* undo with canUndo left as it was
undo_staleCanUndo(s) ==
    IF Len(s.history.past) = 0 THEN s
    ELSE
        LET previous == s.history.past[Len(s.history.past)]
            newPast == SubSeq(s.history.past, 1, Len(s.history.past) - 1)
            currentState == [pages |-> s.pages]
        IN [s EXCEPT !.pages = previous.pages,
                     !.history = [past |-> newPast,
                                  future |-> <<currentState>> \o s.history.future,
                                  canUndo |-> s.history.canUndo,
                                  canRedo |-> TRUE],
                     !.selection = [selectedBoxId |-> NULL, isEditing |-> FALSE]]

\* undo with the selection left as it was
undo_keepsSelection(s) ==
    IF Len(s.history.past) = 0 THEN s
    ELSE
        LET previous == s.history.past[Len(s.history.past)]
            newPast == SubSeq(s.history.past, 1, Len(s.history.past) - 1)
            currentState == [pages |-> s.pages]
        IN [s EXCEPT !.pages = previous.pages,
                     !.history = [past |-> newPast,
                                  future |-> <<currentState>> \o s.history.future,
                                  canUndo |-> Len(newPast) > 0,
                                  canRedo |-> TRUE]]

undo(s) ==
    IF Len(s.history.past) = 0 THEN s
    ELSE
        LET previous == s.history.past[Len(s.history.past)]
            newPast == SubSeq(s.history.past, 1, Len(s.history.past) - 1)
            currentState == [pages |-> s.pages]
        IN [s EXCEPT !.pages = previous.pages,
                     !.history = [past |-> newPast,
                                  future |-> <<currentState>> \o s.history.future,
                                  canUndo |-> Len(newPast) > 0,
                                  canRedo |-> TRUE],
                     !.selection = [selectedBoxId |-> NULL, isEditing |-> FALSE]]

\* redo with the present put at the front of past
redo_prependsPast(s) ==
    IF Len(s.history.future) = 0 THEN s
    ELSE
        LET next == s.history.future[1]
            newFuture == Tail(s.history.future)
            currentState == [pages |-> s.pages]
        IN [s EXCEPT !.pages = next.pages,
                     !.history = [past |-> <<currentState>> \o s.history.past,
                                  future |-> newFuture,
                                  canUndo |-> TRUE,
                                  canRedo |-> Len(newFuture) > 0],
                     !.selection = [selectedBoxId |-> NULL, isEditing |-> FALSE]]

redo(s) ==
    IF Len(s.history.future) = 0 THEN s
    ELSE
        LET next == s.history.future[1]
            newFuture == Tail(s.history.future)
            currentState == [pages |-> s.pages]
        IN [s EXCEPT !.pages = next.pages,
                     !.history = [past |-> Append(s.history.past, currentState),
                                  future |-> newFuture,
                                  canUndo |-> TRUE,
                                  canRedo |-> Len(newFuture) > 0],
                     !.selection = [selectedBoxId |-> NULL, isEditing |-> FALSE]]

getTextBoxesForPage(s, pageIndex) ==
    IF pageIndex >= 0 /\ pageIndex < Len(s.pages)
    THEN s.pages[pageIndex + 1].textBoxes
    ELSE <<>>

(***************************************************************************)
(* The editor store                                                        *)
(***************************************************************************)
FontSizeMin == 1
FontSizeMax == 200

initialPreferences ==
    [activeTool |-> "select",
     defaultFontFamily |-> "Helvetica",
     defaultFontSize |-> 12,
     defaultColor |-> "#000000",
     showGrid |-> FALSE,
     enableSnapping |-> TRUE]

setActiveTool(e, tool) == [e EXCEPT !.activeTool = tool]

setDefaultFontFamily(e, fontFamily) == [e EXCEPT !.defaultFontFamily = fontFamily]

setDefaultFontSize(e, fontSize) ==
    [e EXCEPT !.defaultFontSize = Max(FontSizeMin, Min(FontSizeMax, fontSize))]

setDefaultColor(e, color) == [e EXCEPT !.defaultColor = color]

\* no pure utility function was called
NoProbe == [fn |-> "none"]

\* useState(false), useState(false), useState({ x: 0, y: 0 }) of a
\* TextBoxOverlay; id is the box the component shows, NULL while no component
\* is dragging or resizing
NoGesture == [id |-> NULL, isDragging |-> FALSE, isResizing |-> FALSE,
              dragStart |-> [x |-> 0, y |-> 0]]

(***************************************************************************)
(* Arguments the store actions are called with                             *)
(***************************************************************************)
\* ids of the boxes that are created (generateId never returns an id in use);
\* NoSuchId is never given to a box
BoxIds == {"b1", "b2"}
NoSuchId == "zz"
IdInputs == BoxIds \cup {NoSuchId}

\* addTextBox(textBox): on a valid page, on a negative page index, and on a page
\* index that is pages.length or more for every document loaded here
TextBoxInputs ==
    {NewTextBox("b1", 1), NewTextBox("b2", 1),
     NewTextBox("b1", -1), NewTextBox("b2", 2)}

\* Partial<TextBox>
UpdateInputs == {[text |-> "Hi"]}

\* loadPDF(fileName, pdfData, numPages, pages): a document of two pages, and a
\* call with pages.length # numPages
LoadInputs ==
    {[fileName |-> "a.pdf", pdfData |-> "bytesA", numPages |-> 2,
      pages |-> <<NewPage(0, 612, 792), NewPage(1, 612, 792)>>],
     [fileName |-> "c.pdf", pdfData |-> "bytesC", numPages |-> 2,
      pages |-> <<>>]}

\* setZoom(10)
ZoomInputs == {1000}

PanInputs == {[x |-> 10, y |-> 20]}

\* the ids of the text boxes held in pages
IdsIn(pages) ==
    {pages[i].textBoxes[k].id : <<i, k>> \in
        {<<i, k>> \in (DOMAIN pages) \X (1 .. Cardinality(BoxIds)) :
            k \in DOMAIN pages[i].textBoxes}}

(***************************************************************************)
(* One action per store action                                             *)
(***************************************************************************)
\* law outside the undo/redo scenarios
NoLaw == [phase |-> "free"]

\* law after loadPDF: what the store held when loadPDF was called
Replaced(s) ==
    [phase |-> "loaded",
     boxes |-> \E i \in DOMAIN s.pages : s.pages[i].textBoxes # <<>>,
     editing |-> s.selection.isEditing,
     zoomed |-> s.zoom # ZoomInitial,
     past |-> s.history.past # <<>>,
     future |-> s.history.future # <<>>]

LoadPDF ==
    \E inp \in LoadInputs :
        /\ doc' = loadPDF(doc, inp.fileName, inp.pdfData, inp.numPages, inp.pages)
        /\ lastOp' = "loadPDF"
        /\ law' = Replaced(doc)
        /\ UNCHANGED appVars

ClearDocument ==
    /\ doc' = clearDocument(doc)
    /\ lastOp' = "clearDocument"
    /\ law' = NoLaw
    /\ UNCHANGED appVars

SetZoom ==
    \E z \in ZoomInputs :
        /\ doc' = setZoom(doc, z)
        /\ lastOp' = "setZoom"
        /\ law' = NoLaw
        /\ UNCHANGED appVars

SetPanOffset ==
    \E o \in PanInputs :
        /\ doc' = setPanOffset(doc, o)
        /\ lastOp' = "setPanOffset"
        /\ law' = NoLaw
        /\ UNCHANGED appVars

AddTextBox ==
    \E b \in TextBoxInputs :
        /\ b.id \notin IdsIn(doc.pages)
        /\ doc' = addTextBox(doc, b)
        /\ lastOp' = "addTextBox"
        /\ law' = NoLaw
        /\ UNCHANGED appVars

UpdateTextBox ==
    \E id \in IdInputs, u \in UpdateInputs :
        /\ doc' = updateTextBox(doc, id, u)
        /\ lastOp' = "updateTextBox"
        /\ law' = NoLaw
        /\ UNCHANGED appVars

DeleteTextBox ==
    \E id \in IdInputs :
        /\ doc' = deleteTextBox(doc, id)
        /\ lastOp' = "deleteTextBox"
        /\ law' = NoLaw
        /\ UNCHANGED appVars

SelectTextBox ==
    \E id \in BoxIds \cup {NULL} :
        /\ doc' = selectTextBox(doc, id)
        /\ lastOp' = "selectTextBox"
        /\ law' = NoLaw
        /\ UNCHANGED appVars

EnterEditMode ==
    /\ doc' = enterEditMode(doc)
    /\ lastOp' = "enterEditMode"
    /\ law' = NoLaw
    /\ UNCHANGED appVars

ExitEditMode ==
    /\ doc' = exitEditMode(doc)
    /\ lastOp' = "exitEditMode"
    /\ law' = NoLaw
    /\ UNCHANGED appVars

SaveHistory ==
    /\ Len(doc.history.past) < MaxPast
    /\ doc' = saveHistory(doc)
    /\ lastOp' = "saveHistory"
    /\ law' = NoLaw
    /\ UNCHANGED appVars

Undo ==
    /\ doc' = undo(doc)
    /\ lastOp' = "undo"
    /\ law' = NoLaw
    /\ UNCHANGED appVars

Redo ==
    /\ doc' = redo(doc)
    /\ lastOp' = "redo"
    /\ law' = NoLaw
    /\ UNCHANGED appVars

\* nothing is in flight, nothing was shown, the preferences are the initial ones
AppInit ==
    /\ loads = <<>>
    /\ exports = <<>>
    /\ events = <<>>
    /\ editor = initialPreferences
    /\ probe = NoProbe
    /\ overlay = NoGesture

Init ==
    /\ doc = initialState
    /\ lastOp = "init"
    /\ law = NoLaw
    /\ AppInit

Next ==
    \/ LoadPDF
    \/ ClearDocument
    \/ SetZoom
    \/ SetPanOffset
    \/ AddTextBox
    \/ UpdateTextBox
    \/ DeleteTextBox
    \/ SelectTextBox
    \/ EnterEditMode
    \/ ExitEditMode
    \/ SaveHistory
    \/ Undo
    \/ Redo

Spec == Init /\ [][Next]_vars

(***************************************************************************)
(* SpecHistory: the actions that read or write pages and history, with a   *)
(* deeper history                                                          *)
(***************************************************************************)
HSaveHistory ==
    /\ Len(doc.history.past) < MaxHist
    /\ doc' = saveHistory(doc)
    /\ lastOp' = "saveHistory"
    /\ law' = NoLaw
    /\ UNCHANGED appVars

HNext ==
    \/ LoadPDF
    \/ ClearDocument
    \/ AddTextBox
    \/ UpdateTextBox
    \/ DeleteTextBox
    \/ HSaveHistory
    \/ Undo
    \/ Redo

SpecHistory == Init /\ [][HNext]_vars

(***************************************************************************)
(* SpecLaw: undo/redo scenarios.  From a store state, LawMutate runs       *)
(* saveHistory() and then one page mutation, any number of times; then     *)
(* undo is called, then either redo, or saveHistory and a new mutation.    *)
(* law counts the calls and keeps the values of pages the scenario is      *)
(* measured against.                                                       *)
(***************************************************************************)
\* a page mutation and its arguments
Mutations ==
    {[op |-> "addTextBox", textBox |-> b] : b \in TextBoxInputs}
    \cup {[op |-> "updateTextBox", id |-> id, updates |-> u] :
            id \in IdInputs, u \in UpdateInputs}
    \cup {[op |-> "deleteTextBox", id |-> id] : id \in IdInputs}

\* generateId never returns the id of a box that exists
MutationOk(s, m) == m.op = "addTextBox" => m.textBox.id \notin IdsIn(s.pages)

Mutate(s, m) ==
    CASE m.op = "addTextBox" -> addTextBox(s, m.textBox)
      [] m.op = "updateTextBox" -> updateTextBox(s, m.id, m.updates)
      [] m.op = "deleteTextBox" -> deleteTextBox(s, m.id)

\* store states the scenarios start from: no document, a fresh document, a
\* document with a box, with a snapshot in past, and with a snapshot in future
LawStarts ==
    LET a == CHOOSE inp \in LoadInputs : inp.fileName = "a.pdf"
        s0 == loadPDF(initialState, a.fileName, a.pdfData, a.numPages, a.pages)
        s1 == addTextBox(s0, NewTextBox("b1", 1))
        s2 == addTextBox(saveHistory(s1), NewTextBox("b2", 1))
        s3 == undo(s2)
    IN {initialState, s0, s1, s2, s3}

LawInit ==
    /\ doc \in LawStarts
    /\ lastOp = "init"
    /\ law = [phase |-> "mutating", base |-> doc.pages, top |-> doc.pages,
              n |-> 0, k |-> 0, r |-> 0,
              savedPast |-> doc.history.past, savedPages |-> doc.pages]
    /\ AppInit

\* saveHistory(); then one mutation
LawMutate ==
    /\ law.phase = "mutating"
    /\ law.n < LawLen
    /\ \E m \in Mutations :
        /\ MutationOk(doc, m)
        /\ doc' = Mutate(saveHistory(doc), m)
        /\ lastOp' = m.op
        /\ law' = [law EXCEPT !.n = @ + 1, !.top = doc'.pages]
        /\ UNCHANGED appVars

LawUndo ==
    /\ law.phase \in {"mutating", "undoing"}
    /\ law.n >= 1
    /\ law.k < law.n
    /\ doc' = undo(doc)
    /\ lastOp' = "undo"
    /\ law' = [law EXCEPT !.phase = "undoing", !.k = @ + 1]
    /\ UNCHANGED appVars

LawRedo ==
    /\ \/ law.phase = "undoing" /\ law.k = law.n
       \/ law.phase = "redoing"
    /\ law.r < law.n
    /\ doc' = redo(doc)
    /\ lastOp' = "redo"
    /\ law' = [law EXCEPT !.phase = "redoing", !.r = @ + 1]
    /\ UNCHANGED appVars

\* after one or more undo calls: saveHistory()
LawSave ==
    /\ law.phase = "undoing"
    /\ doc' = saveHistory(doc)
    /\ lastOp' = "saveHistory"
    /\ law' = [law EXCEPT !.phase = "saved",
                          !.savedPast = doc.history.past,
                          !.savedPages = doc.pages]
    /\ UNCHANGED appVars

\* and then a new mutation
LawEdit ==
    /\ law.phase = "saved"
    /\ \E m \in Mutations :
        /\ MutationOk(doc, m)
        /\ doc' = Mutate(doc, m)
        /\ lastOp' = m.op
        /\ law' = [law EXCEPT !.phase = "truncated"]
        /\ UNCHANGED appVars

LawNext ==
    \/ LawMutate
    \/ LawUndo
    \/ LawRedo
    \/ LawSave
    \/ LawEdit

SpecLaw == LawInit /\ [][LawNext]_vars

(***************************************************************************)
(* Properties                                                              *)
(***************************************************************************)
Cleared == [selectedBoxId |-> NULL, isEditing |-> FALSE]

\* C1 (SpecLaw): after n snapshot-then-mutate steps, n calls of undo return
\* pages to the value before the first mutation, and n calls of redo after
\* that return pages to the value after the last mutation.
UndoRedoInverseLaw ==
    /\ (law.phase = "undoing" /\ law.k = law.n) => (doc.pages = law.base)
    /\ (law.phase = "redoing" /\ law.r = law.n) => (doc.pages = law.top)

\* two mutations that changed pages, undone twice and redone twice
UndoRedoInverseLawWitness ==
    /\ law.phase = "redoing"
    /\ law.n >= 2
    /\ law.r = law.n
    /\ law.base # law.top
    /\ doc.history.past[Len(doc.history.past)].pages # law.base

\* C2 (SpecLaw): saveHistory adds exactly one entry to past, the current pages,
\* and leaves pages alone; after undo, saveHistory and a new mutation, future
\* is empty and canRedo is false.
HistoryTruncation ==
    /\ (law.phase = "saved") =>
          /\ doc.history.past = Append(law.savedPast, [pages |-> law.savedPages])
          /\ doc.pages = law.savedPages
    /\ (law.phase \in {"saved", "truncated"}) =>
          /\ doc.history.future = <<>>
          /\ doc.history.canRedo = FALSE

\* an undo, then a snapshot, then a mutation that changed pages
HistoryTruncationWitness ==
    /\ law.phase = "truncated"
    /\ law.k >= 1
    /\ doc.pages # law.savedPages
    /\ doc.history.past # <<>>

\* C3 (Spec): undo with an empty past, and redo with an empty future, leave
\* the whole store state unchanged.
HistoryExhaustionNoOp ==
    [][(\/ lastOp' = "undo" /\ doc.history.past = <<>>
        \/ lastOp' = "redo" /\ doc.history.future = <<>>)
       => doc' = doc]_vars

\* undo was called with an empty past and a box in edit mode: an undo that
\* moves a snapshot leaves future non-empty and the selection cleared
HistoryExhaustionNoOpWitness ==
    /\ lastOp = "undo"
    /\ doc.history.past = <<>>
    /\ doc.history.future = <<>>
    /\ doc.selection.isEditing
    /\ IdsIn(doc.pages) # {}

\* C4 (SpecHistory): canUndo is true exactly when past is non-empty and canRedo
\* is true exactly when future is non-empty.
CanUndoRedoFlags ==
    /\ doc.history.canUndo = (Len(doc.history.past) > 0)
    /\ doc.history.canRedo = (Len(doc.history.future) > 0)

\* an undo that left a snapshot in past
CanUndoRedoFlagsWitness ==
    /\ lastOp = "undo"
    /\ doc.history.canUndo
    /\ doc.history.canRedo

\* C5 (Spec): isEditing implies a selection.
EditingImpliesSelection ==
    doc.selection.isEditing => doc.selection.selectedBoxId # NULL

\* enterEditMode was called with no selection
EditingImpliesSelectionWitness ==
    /\ lastOp = "enterEditMode"
    /\ doc.selection.selectedBoxId = NULL
    /\ ~doc.selection.isEditing
    /\ doc.isLoaded

\* C6 (Spec): updateTextBox with an id that matches no box, and addTextBox with
\* a page index outside 0..pages.length-1, leave pages, the selection and the
\* history unchanged.
InvalidReferenceNoOp ==
    [][/\ \A id \in IdInputs, u \in UpdateInputs :
            (/\ id \notin IdsIn(doc.pages)
             /\ lastOp' = "updateTextBox"
             /\ doc' = updateTextBox(doc, id, u))
            => (/\ doc'.pages = doc.pages
                /\ doc'.selection = doc.selection
                /\ doc'.history = doc.history)
       /\ \A b \in TextBoxInputs :
            (/\ b.pageIndex \notin 0 .. (Len(doc.pages) - 1)
             /\ lastOp' = "addTextBox"
             /\ doc' = addTextBox(doc, b))
            => (/\ doc'.pages = doc.pages
                /\ doc'.selection = doc.selection
                /\ doc'.history = doc.history)]_vars

\* addTextBox was called on the two-page document and added no box (the page
\* index was -1 or 2), with a selection and a snapshot in place
InvalidReferenceNoOpWitness ==
    /\ lastOp = "addTextBox"
    /\ doc.fileName = "a.pdf"
    /\ Len(doc.pages) = 2
    /\ IdsIn(doc.pages) = {}
    /\ doc.selection.selectedBoxId # NULL
    /\ doc.history.past # <<>>

\* C7 (Spec): deleteTextBox with an id that matches no box leaves pages, the
\* selection and the history unchanged.
DeleteUnknownIdNoOp ==
    [][\A id \in IdInputs :
            (/\ id \notin IdsIn(doc.pages)
             /\ lastOp' = "deleteTextBox"
             /\ doc' = deleteTextBox(doc, id))
            => (/\ doc'.pages = doc.pages
                /\ doc'.selection = doc.selection
                /\ doc'.history = doc.history)]_vars

\* new holds exactly the boxes of old whose id is not id, in the order of old
OthersInOrder(old, new, id) ==
    \E f \in [1 .. Len(new) -> 1 .. Len(old)] :
        /\ \A a, b \in 1 .. Len(new) : a < b => f[a] < f[b]
        /\ \A k \in 1 .. Len(new) : new[k] = old[f[k]]
        /\ \A j \in 1 .. Len(old) :
            (old[j].id # id) <=> (\E k \in 1 .. Len(new) : f[k] = j)

\* C8 (Spec): after deleteTextBox(id) no page holds a box with that id, every
\* other box is still on its page, in its relative order and with its fields,
\* and the selection is cleared if the deleted box was the selected one.
DeleteTextBoxRemovesOnlyThatBox ==
    [][\A id \in IdInputs :
            (lastOp' = "deleteTextBox" /\ doc' = deleteTextBox(doc, id))
            => (/\ id \notin IdsIn(doc'.pages)
                /\ Len(doc'.pages) = Len(doc.pages)
                /\ \A i \in DOMAIN doc.pages :
                    /\ OthersInOrder(doc.pages[i].textBoxes, doc'.pages[i].textBoxes, id)
                    /\ doc'.pages[i].index = doc.pages[i].index
                    /\ doc'.pages[i].width = doc.pages[i].width
                    /\ doc'.pages[i].height = doc.pages[i].height
                /\ (doc.selection.selectedBoxId = id) => (doc'.selection = Cleared))]_vars

\* deleteTextBox was called after a snapshot of two boxes, and one box is left
DeleteTextBoxRemovesOnlyThatBoxWitness ==
    /\ lastOp = "deleteTextBox"
    /\ doc.history.past # <<>>
    /\ Cardinality(IdsIn(doc.history.past[Len(doc.history.past)].pages)) = 2
    /\ Cardinality(IdsIn(doc.pages)) = 1
    /\ doc.selection = Cleared

\* sequences of undo and redo calls
URSeqs == UNION {[1 .. n -> {"undo", "redo"}] : n \in 0 .. URLen}

RECURSIVE ApplyUR(_, _)
ApplyUR(s, seq) ==
    IF seq = <<>> THEN s
    ELSE ApplyUR(IF Head(seq) = "undo" THEN undo(s) ELSE redo(s), Tail(seq))

\* C9 (Spec): loadPDF from any state yields zoom 1.0, panOffset (0,0), no
\* selection, an empty history with canUndo = canRedo = false and the supplied
\* pages; no sequence of undo and redo calls changes the store after that.
LoadReplacesEverything ==
    [][\A inp \in LoadInputs :
            (/\ lastOp' = "loadPDF"
             /\ doc' = loadPDF(doc, inp.fileName, inp.pdfData, inp.numPages, inp.pages))
            => (/\ doc'.zoom = ZoomInitial
                /\ doc'.panOffset = [x |-> 0, y |-> 0]
                /\ doc'.selection = Cleared
                /\ doc'.history = [past |-> <<>>, future |-> <<>>,
                                   canUndo |-> FALSE, canRedo |-> FALSE]
                /\ doc'.pages = inp.pages
                /\ doc'.fileName = inp.fileName
                /\ doc'.pdfData = inp.pdfData
                /\ \A seq \in URSeqs : ApplyUR(doc', seq) = doc')]_vars

\* the two-page document was loaded over a document with a text box, a box in
\* edit mode, a zoom other than 1.0 and a snapshot to redo
LoadReplacesEverythingWitness ==
    /\ lastOp = "loadPDF"
    /\ doc.fileName = "a.pdf"
    /\ Len(doc.pages) = 2
    /\ law.phase = "loaded"
    /\ law.boxes
    /\ law.editing
    /\ law.zoomed
    /\ law.future

\* C10 (Spec): numPages = pages.length in every store state (loadPDF with
\* pages.length # numPages does not install the document).
NumPagesIsPagesLength == doc.numPages = Len(doc.pages)

(***************************************************************************)
(* Opening a file: handleFileChange waits for loadPDFFromFile and calls    *)
(* loadPDF when it resolves                                                *)
(***************************************************************************)
\* SpecLoad: at most this many files are being read at a time
MaxLoads == 2

\* seq without its i-th element
RemoveAt(seq, i) == SubSeq(seq, 1, i - 1) \o SubSeq(seq, i + 1, Len(seq))

\* pdfjsLib.getDocument(bytes): the page sizes of the document, or a rejection
\* for bytes that are no PDF document
loadPDFDocument(data) ==
    CASE data = "bytesA" -> [ok |-> TRUE, numPages |-> 2,
                             sizes |-> <<[width |-> 612, height |-> 792],
                                         [width |-> 612, height |-> 792]>>]
      [] data = "bytesB" -> [ok |-> TRUE, numPages |-> 1,
                             sizes |-> <<[width |-> 595, height |-> 842]>>]
      [] data = "bytesC" -> [ok |-> TRUE, numPages |-> 2,
                             sizes |-> <<[width |-> 612, height |-> 792],
                                         [width |-> 612, height |-> 792]>>]
      [] OTHER -> [ok |-> FALSE]

\* one PageState per page of the document, index i - 1 for page number i
extractPageInfo(pdfDoc) ==
    [i \in 1 .. pdfDoc.numPages |->
        NewPage(i - 1, pdfDoc.sizes[i].width, pdfDoc.sizes[i].height)]

\* a File is its name and what FileReader gives for it: the bytes, or NULL
\* when reading fails (reader.onerror, or an empty result)
loadPDFFromFile(file) ==
    IF ~Truthy(file.result)
    THEN [ok |-> FALSE, error |-> "Failed to read file"]
    ELSE LET pdfDoc == loadPDFDocument(file.result) IN
         IF ~pdfDoc.ok
         THEN [ok |-> FALSE, error |-> "Invalid PDF structure"]
         ELSE [ok |-> TRUE,
               fileName |-> file.name,
               pdfData |-> file.result,
               numPages |-> pdfDoc.numPages,
               pages |-> extractPageInfo(pdfDoc)]

\* the files the user picks: two documents, a corrupted file, a file that
\* cannot be read
FileInputs ==
    {[name |-> "a.pdf", result |-> "bytesA"],
     [name |-> "b.pdf", result |-> "bytesB"],
     [name |-> "corrupted.pdf", result |-> "corrupt"],
     [name |-> "unreadable.pdf", result |-> NULL]}

\* e.target.files?.[0] when the dialog was closed without a file
NoFile == [name |-> NULL, result |-> NULL]

LoadAlert == [kind |-> "alert",
              message |-> "Failed to load PDF. Please make sure the file is a valid PDF."]

\* handleFileChange up to its await: no file picked returns at once
handleFileChange(file, pending) ==
    IF file = NoFile THEN pending ELSE Append(pending, file)

\* handleFileChange with the document cleared when loading fails
fileChangeSettled_clearsFirst(s, file) ==
    LET r == loadPDFFromFile(file) IN
    IF r.ok
    THEN [doc |-> loadPDF(s, r.fileName, r.pdfData, r.numPages, r.pages),
          events |-> <<>>]
    ELSE [doc |-> clearDocument(s), events |-> <<LoadAlert>>]

\* handleFileChange after its await: loadPDF when loadPDFFromFile resolved,
\* the alert when it rejected
fileChangeSettled(s, file) ==
    LET r == loadPDFFromFile(file) IN
    IF r.ok
    THEN [doc |-> loadPDF(s, r.fileName, r.pdfData, r.numPages, r.pages),
          events |-> <<>>]
    ELSE [doc |-> s, events |-> <<LoadAlert>>]

HandleFileChange ==
    \E file \in FileInputs \cup {NoFile} :
        /\ Len(loads) < MaxLoads
        /\ loads' = handleFileChange(file, loads)
        /\ lastOp' = "handleFileChange"
        /\ law' = NoLaw
        /\ UNCHANGED <<doc, exports, events, editor, probe, overlay>>

\* the reads settle in any order
FileChangeSettles ==
    \E i \in 1 .. Len(loads) :
        LET after == fileChangeSettled(doc, loads[i]) IN
        /\ doc' = after.doc
        /\ events' = after.events
        /\ loads' = RemoveAt(loads, i)
        /\ lastOp' = "fileChangeSettled"
        /\ law' = NoLaw
        /\ UNCHANGED <<exports, editor, probe, overlay>>

LoadNext ==
    \/ HandleFileChange
    \/ FileChangeSettles
    \/ AddTextBox
    \/ SelectTextBox
    \/ SetZoom
    \/ SaveHistory

SpecLoad == Init /\ [][LoadNext]_vars

\* C11 (SpecLoad): picking a file changes nothing in the document store before
\* loadPDFFromFile settles; when it rejects (file not readable, bytes not a
\* PDF), the store is left exactly as it was and one alert is shown.
FailedLoadKeepsDocument ==
    [][/\ (lastOp' = "handleFileChange") => (doc' = doc /\ events' = events)
       /\ \A i \in 1 .. Len(loads) :
            (/\ lastOp' = "fileChangeSettled"
             /\ loads' = RemoveAt(loads, i)
             /\ ~loadPDFFromFile(loads[i]).ok)
            => (/\ doc' = doc
                /\ Len(events') = 1
                /\ events'[1].kind = "alert")]_vars

\* a load failed while a document with a text box, a selection, a zoom other
\* than 1.0 and a snapshot was open
FailedLoadKeepsDocumentWitness ==
    /\ lastOp = "fileChangeSettled"
    /\ events = <<LoadAlert>>
    /\ doc.fileName = "a.pdf"
    /\ IdsIn(doc.pages) # {}
    /\ doc.selection.selectedBoxId # NULL
    /\ doc.zoom # ZoomInitial
    /\ doc.history.past # <<>>

(***************************************************************************)
(* Zoom: the toolbar buttons, Ctrl/Cmd + wheel and Ctrl/Cmd + key call     *)
(* setZoom with the zoom of the last render plus or minus 0.1              *)
(***************************************************************************)
\* 0.1, in hundredths
ZoomStep == 10

\* handleWheel: e is [ctrl, deltaY]; the listener is on the viewer's container
handleWheel(s, e) ==
    IF e.ctrl
    THEN LET delta == IF e.deltaY > 0 THEN -ZoomStep ELSE ZoomStep IN
         setZoom(s, s.zoom + delta)
    ELSE s

\* handleKeyDown of the viewer: e is [ctrl, key]
handleZoomKeyDown(s, e) ==
    IF e.ctrl
    THEN IF e.key = "=" \/ e.key = "+" THEN setZoom(s, s.zoom + ZoomStep)
         ELSE IF e.key = "-" THEN setZoom(s, s.zoom - ZoomStep)
         ELSE IF e.key = "0" THEN setZoom(s, ZoomInitial)
         ELSE s
    ELSE s

\* the toolbar's Zoom Out and Zoom In buttons
toolbarZoom(s, button) ==
    IF button = "-" THEN setZoom(s, s.zoom - ZoomStep) ELSE setZoom(s, s.zoom + ZoomStep)

WheelInputs == [ctrl : BOOLEAN, deltaY : {-100, 0, 100}]
ZoomKeyInputs == [ctrl : BOOLEAN, key : {"=", "+", "-", "0", "a"}]

\* setZoom(10), setZoom(0), and values at, next to and far from the bounds
ZoomArgs == {1000, 0, -50, 24, 25, 26, 399, 400, 401}

\* the container the listener is attached to is rendered for a loaded document
HandleWheel ==
    \E e \in WheelInputs :
        /\ doc.isLoaded
        /\ Truthy(doc.pdfData)
        /\ doc' = handleWheel(doc, e)
        /\ lastOp' = "handleWheel"
        /\ law' = NoLaw
        /\ UNCHANGED appVars

HandleZoomKeyDown ==
    \E e \in ZoomKeyInputs :
        /\ doc' = handleZoomKeyDown(doc, e)
        /\ lastOp' = "handleKeyDown"
        /\ law' = NoLaw
        /\ UNCHANGED appVars

\* the toolbar is rendered for a loaded document
ToolbarZoom ==
    \E button \in {"-", "+"} :
        /\ doc.isLoaded
        /\ doc' = toolbarZoom(doc, button)
        /\ lastOp' = "toolbarZoom"
        /\ law' = NoLaw
        /\ UNCHANGED appVars

ZSetZoom ==
    \E z \in ZoomArgs :
        /\ doc' = setZoom(doc, z)
        /\ lastOp' = "setZoom"
        /\ law' = NoLaw
        /\ UNCHANGED appVars

ZoomNext ==
    \/ HandleWheel
    \/ HandleZoomKeyDown
    \/ ToolbarZoom
    \/ ZSetZoom
    \/ LoadPDF
    \/ ClearDocument

SpecZoom == Init /\ [][ZoomNext]_vars

\* C12 (SpecZoom): the stored zoom is within [0.25, 4] after every sequence of
\* setZoom calls; setZoom(10) stores 4 and setZoom(0) stores 0.25.
ZoomClamp ==
    /\ doc.zoom >= ZoomMin
    /\ doc.zoom <= ZoomMax
    /\ setZoom(doc, 1000).zoom = ZoomMax
    /\ setZoom(doc, 0).zoom = ZoomMin

\* the wheel took the zoom below 0.25 and 0.25 was stored, in a state that
\* only steps of 0.1 from a clamped value lead to
ZoomClampWitness ==
    /\ lastOp = "handleWheel"
    /\ doc.zoom = ZoomMin
    /\ doc.isLoaded

(***************************************************************************)
(* The exporter (pdfExporter): fonts, colours, word wrap, draw operations  *)
(*                                                                         *)
(* A string is the sequence of its characters where the code looks inside  *)
(* it (split, measuring).  Widths of text are kept in 1/1000 pt, and the   *)
(* coordinates of the draw operations in 1/Unit pt, so that the halves of  *)
(* centring and the factor 1.2 of the line height stay integers.           *)
(***************************************************************************)
Unit == 2000

\* the characters of the strings the model uses as text and as colour of a box
Chars(str) ==
    CASE str = "" -> <<>>
      [] str = "#000000" -> <<"#", "0", "0", "0", "0", "0", "0">>
      [] str = "#FFFFFF" -> <<"#", "F", "F", "F", "F", "F", "F">>
      [] str = "#ffffff" -> <<"#", "f", "f", "f", "f", "f", "f">>
      [] str = "#FF0000" -> <<"#", "F", "F", "0", "0", "0", "0">>
      [] str = "FF0000" -> <<"F", "F", "0", "0", "0", "0">>
      [] str = "red" -> <<"r", "e", "d">>
      [] str = "Hi" -> <<"H", "i">>
      [] str = "New Text" -> <<"N", "e", "w", " ", "T", "e", "x", "t">>
      [] str = "Hello World" ->
            <<"H", "e", "l", "l", "o", " ", "W", "o", "r", "l", "d">>
      [] str = "W W  W" -> <<"W", " ", "W", " ", " ", "W">>

getFontForFamily(fontFamily) ==
    CASE fontFamily = "Helvetica" -> "Helvetica"
      [] fontFamily = "Times-Roman" -> "Times-Roman"
      [] fontFamily = "Courier" -> "Courier"
      [] OTHER -> "Helvetica"

\* pdfDoc.embedFont: the glyph widths of a standard font for a font size of
\* 1000: of the space, of "W", of any other character
embedFont(fontType) ==
    CASE fontType = "Helvetica" ->
            [name |-> "Helvetica", space |-> 278, wide |-> 944, other |-> 556]
      [] fontType = "Times-Roman" ->
            [name |-> "Times-Roman", space |-> 250, wide |-> 944, other |-> 500]
      [] fontType = "Courier" ->
            [name |-> "Courier", space |-> 600, wide |-> 600, other |-> 600]

GlyphWidth(font, c) ==
    IF c = " " THEN font.space ELSE IF c = "W" THEN font.wide ELSE font.other

RECURSIVE GlyphSum(_, _)
GlyphSum(font, text) ==
    IF text = <<>> THEN 0
    ELSE GlyphWidth(font, Head(text)) + GlyphSum(font, Tail(text))

\* font.widthOfTextAtSize(text, size), in 1/1000 pt
widthOfTextAtSize(font, text, size) == GlyphSum(font, text) * size

\* the value of a character matched by [a-f\d] under the i flag, as parseInt
\* reads it in base 16; -1 for a character the class does not match
HexDigit(c) ==
    CASE c = "0" -> 0 [] c = "1" -> 1 [] c = "2" -> 2 [] c = "3" -> 3
      [] c = "4" -> 4 [] c = "5" -> 5 [] c = "6" -> 6 [] c = "7" -> 7
      [] c = "8" -> 8 [] c = "9" -> 9
      [] c \in {"a", "A"} -> 10 [] c \in {"b", "B"} -> 11
      [] c \in {"c", "C"} -> 12 [] c \in {"d", "D"} -> 13
      [] c \in {"e", "E"} -> 14 [] c \in {"f", "F"} -> 15
      [] OTHER -> -1

\* hexToRgb with the letters a-f matched in lower case only
hexToRgb_caseSensitive(hex) ==
    LET digits == IF hex # <<>> /\ Head(hex) = "#" THEN Tail(hex) ELSE hex
        Lower(c) == HexDigit(c) >= 0 /\ c \notin {"A", "B", "C", "D", "E", "F"}
        Pair(i) == HexDigit(digits[i]) * 16 + HexDigit(digits[i + 1])
    IN IF Len(digits) = 6 /\ \A i \in 1 .. 6 : Lower(digits[i])
       THEN [r |-> Pair(1), g |-> Pair(3), b |-> Pair(5)]
       ELSE [r |-> 0, g |-> 0, b |-> 0]

\* hexToRgb on the characters of hex, channels in 1/255: the regular
\* expression matches an optional # and then exactly six hexadecimal digits
\* up to the end of the string; without a match the colour is black
hexToRgb(hex) ==
    LET digits == IF hex # <<>> /\ Head(hex) = "#" THEN Tail(hex) ELSE hex
        Pair(i) == HexDigit(digits[i]) * 16 + HexDigit(digits[i + 1])
    IN IF Len(digits) = 6 /\ \A i \in 1 .. 6 : HexDigit(digits[i]) >= 0
       THEN [r |-> Pair(1), g |-> Pair(3), b |-> Pair(5)]
       ELSE [r |-> 0, g |-> 0, b |-> 0]

\* text.split(' ')
RECURSIVE SplitFrom(_, _, _)
SplitFrom(chars, word, words) ==
    IF chars = <<>> THEN Append(words, word)
    ELSE IF Head(chars) = " "
         THEN SplitFrom(Tail(chars), <<>>, Append(words, word))
         ELSE SplitFrom(Tail(chars), Append(word, Head(chars)), words)

Split(text) == SplitFrom(text, <<>>, <<>>)

RECURSIVE WrapLoop(_, _, _, _, _, _)

\* the loop with a line ended when the width reaches maxWidth
WrapLoop_endsAtMaxWidth(words, lines, currentLine, maxWidth, font, fontSize) ==
    IF words = <<>> THEN [lines |-> lines, currentLine |-> currentLine]
    ELSE
        LET word == Head(words)
            testLine == IF currentLine # <<>>
                        THEN currentLine \o <<" ">> \o word
                        ELSE word
            width == widthOfTextAtSize(font, testLine, fontSize)
        IN IF width >= maxWidth * 1000 /\ currentLine # <<>>
           THEN WrapLoop(Tail(words), Append(lines, currentLine), word,
                         maxWidth, font, fontSize)
           ELSE WrapLoop(Tail(words), lines, testLine, maxWidth, font, fontSize)

\* the loop with the new line started empty when a line is full
WrapLoop_dropsBreakWord(words, lines, currentLine, maxWidth, font, fontSize) ==
    IF words = <<>> THEN [lines |-> lines, currentLine |-> currentLine]
    ELSE
        LET word == Head(words)
            testLine == IF currentLine # <<>>
                        THEN currentLine \o <<" ">> \o word
                        ELSE word
            width == widthOfTextAtSize(font, testLine, fontSize)
        IN IF width > maxWidth * 1000 /\ currentLine # <<>>
           THEN WrapLoop(Tail(words), Append(lines, currentLine), <<>>,
                         maxWidth, font, fontSize)
           ELSE WrapLoop(Tail(words), lines, testLine, maxWidth, font, fontSize)

\* the for loop of wrapText; an empty currentLine is falsy
WrapLoop(words, lines, currentLine, maxWidth, font, fontSize) ==
    IF words = <<>> THEN [lines |-> lines, currentLine |-> currentLine]
    ELSE
        LET word == Head(words)
            testLine == IF currentLine # <<>>
                        THEN currentLine \o <<" ">> \o word
                        ELSE word
            width == widthOfTextAtSize(font, testLine, fontSize)
        IN IF width > maxWidth * 1000 /\ currentLine # <<>>
           THEN WrapLoop(Tail(words), Append(lines, currentLine), word,
                         maxWidth, font, fontSize)
           ELSE WrapLoop(Tail(words), lines, testLine, maxWidth, font, fontSize)

wrapText(text, maxWidth, font, fontSize) ==
    LET r == WrapLoop(Split(text), <<>>, <<>>, maxWidth, font, fontSize) IN
    IF r.currentLine # <<>> THEN Append(r.lines, r.currentLine) ELSE r.lines

\* a length in 1/1000 pt, in 1/Unit pt
Milli(w) == w * (Unit \div 1000)

\* a line pitch of fontSize
LineHeight_noLeading(fontSize) == fontSize * Unit

\* lineHeight = fontSize * 1.2, in 1/Unit pt
LineHeight(fontSize) == (fontSize * 12 * Unit) \div 10

\* the loop of drawTextBox over the wrapped lines: line number k (from 0) is
\* drawn at currentY = firstY - k * lineHeight unless that is below the box
RECURSIVE DrawLines(_, _, _, _, _)
DrawLines(lines, k, textBox, pdfY, font) ==
    LET currentY == Unit * (pdfY + textBox.height - textBox.fontSize - 2)
                    - k * LineHeight(textBox.fontSize)
        textWidth == widthOfTextAtSize(font, Head(lines), textBox.fontSize)
        x == IF textBox.textAlign = "center"
             THEN Unit * textBox.x + Milli(1000 * textBox.width - textWidth) \div 2
             ELSE IF textBox.textAlign = "right"
             THEN Unit * (textBox.x + textBox.width - 2) - Milli(textWidth)
             ELSE Unit * (textBox.x + 2)
    IN IF lines = <<>> THEN <<>>
       ELSE IF currentY < Unit * pdfY THEN <<>>
       ELSE <<[op |-> "drawText", for |-> textBox.id, text |-> Head(lines),
               x |-> x, y |-> currentY, size |-> textBox.fontSize,
               font |-> font.name, color |-> hexToRgb(Chars(textBox.color))]>>
            \o DrawLines(Tail(lines), k + 1, textBox, pdfY, font)

\* the rectangle placed at the y of the box, counted from the top of the page
Rectangle_topLeftOrigin(textBox, pdfY) ==
    [op |-> "drawRectangle", for |-> textBox.id,
     x |-> Unit * textBox.x, y |-> Unit * textBox.y,
     width |-> Unit * textBox.width, height |-> Unit * textBox.height,
     color |-> hexToRgb(Chars(IF Truthy(textBox.backgroundColor)
                              THEN textBox.backgroundColor ELSE "#FFFFFF"))]

\* the rectangle of a box in replace mode
Rectangle(textBox, pdfY) ==
    [op |-> "drawRectangle", for |-> textBox.id,
     x |-> Unit * textBox.x, y |-> Unit * pdfY,
     width |-> Unit * textBox.width, height |-> Unit * textBox.height,
     color |-> hexToRgb(Chars(IF Truthy(textBox.backgroundColor)
                              THEN textBox.backgroundColor ELSE "#FFFFFF"))]

\* drawTextBox with the rectangle drawn after the text
drawTextBox_textFirst(textBox, pageHeight) ==
    LET font == embedFont(getFontForFamily(textBox.fontFamily))
        pdfY == pageHeight - textBox.y - textBox.height
        lines == wrapText(Chars(textBox.text), textBox.width - 4, font, textBox.fontSize)
    IN DrawLines(lines, 0, textBox, pdfY, font)
       \o (IF textBox.mode = "replace" THEN <<Rectangle(textBox, pdfY)>> ELSE <<>>)

\* the draw operations drawTextBox makes on the page, in order; for is the id
\* of the box they are made for
drawTextBox(textBox, pageHeight) ==
    LET font == embedFont(getFontForFamily(textBox.fontFamily))
        pdfY == pageHeight - textBox.y - textBox.height
        lines == wrapText(Chars(textBox.text), textBox.width - 4, font, textBox.fontSize)
    IN (IF textBox.mode = "replace" THEN <<Rectangle(textBox, pdfY)>> ELSE <<>>)
       \o DrawLines(lines, 0, textBox, pdfY, font)

RECURSIVE DrawBoxes(_, _)
DrawBoxes(textBoxes, pageHeight) ==
    IF textBoxes = <<>> THEN <<>>
    ELSE drawTextBox(Head(textBoxes), pageHeight)
         \o DrawBoxes(Tail(textBoxes), pageHeight)

\* the calls of the PDF library that can fail, and "none"
Faults == {"none", "load", "copyPages", "embedFont", "save"}

\* exportPDF with the text boxes of a page drawn onto the next page
exportPDF_shiftsPages(originalPdfData, pages, fault) ==
    LET originalPdf == loadPDFDocument(originalPdfData)
        boxes == UNION {{pages[i].textBoxes[k] : k \in DOMAIN pages[i].textBoxes} :
                        i \in DOMAIN pages}
    IN IF \/ fault = "load"
          \/ ~originalPdf.ok
          \/ pages # <<>> /\ fault = "copyPages"
          \/ Len(pages) > originalPdf.numPages
          \/ boxes # {} /\ fault = "embedFont"
          \/ fault = "save"
       THEN [ok |-> FALSE]
       ELSE [ok |-> TRUE,
             pages |-> [i \in DOMAIN pages |->
                 [copyOf |-> [data |-> originalPdfData, index |-> i - 1],
                  ops |-> DrawBoxes(pages[((i - 2) % Len(pages)) + 1].textBoxes,
                                    originalPdf.sizes[i].height)]]]

\* exportPDF: the new document, page by page what it is a copy of and the draw
\* operations made on it, or the rejection when a call of the library fails;
\* fault names the call that fails if it is made
exportPDF(originalPdfData, pages, fault) ==
    LET originalPdf == loadPDFDocument(originalPdfData)
        boxes == UNION {{pages[i].textBoxes[k] : k \in DOMAIN pages[i].textBoxes} :
                        i \in DOMAIN pages}
    IN IF \/ fault = "load"
          \/ ~originalPdf.ok
          \/ pages # <<>> /\ fault = "copyPages"
          \/ Len(pages) > originalPdf.numPages
          \/ boxes # {} /\ fault = "embedFont"
          \/ fault = "save"
       THEN [ok |-> FALSE]
       ELSE [ok |-> TRUE,
             pages |-> [i \in DOMAIN pages |->
                 [copyOf |-> [data |-> originalPdfData, index |-> i - 1],
                  ops |-> DrawBoxes(pages[i].textBoxes,
                                    originalPdf.sizes[i].height)]]]

(***************************************************************************)
(* SpecDraw: exportPDF applied to documents built by loadPDF and           *)
(* addTextBox                                                              *)
(***************************************************************************)
\* the documents exported hold at most this many text boxes
MaxDrawBoxes == 2

\* text boxes as the editor makes them: moved, resized, retyped and restyled
DrawBoxInputs ==
    {Merge(NewTextBox("b1", 0), [text |-> "Hello World"]),
     Merge(NewTextBox("b2", 0), [mode |-> "replace"]),
     Merge(NewTextBox("b3", 0), [mode |-> "replace", backgroundColor |-> "#FF0000",
                                 text |-> "W W  W", width |-> 40,
                                 textAlign |-> "center"]),
     Merge(NewTextBox("b4", 1), [mode |-> "replace", backgroundColor |-> "red",
                                 textAlign |-> "right", fontFamily |-> "Inter",
                                 x |-> 300, y |-> 700]),
     Merge(NewTextBox("b5", 0), [fontSize |-> 200, text |-> "Hi"]),
     Merge(NewTextBox("b6", 1), [mode |-> "replace", text |-> "",
                                 backgroundColor |-> "#ffffff"]),
     Merge(NewTextBox("b7", 0), [text |-> "W W  W", width |-> 30, height |-> 20,
                                 fontFamily |-> "Courier", color |-> "#FF0000"]),
     Merge(NewTextBox("b8", 1), [mode |-> "replace", backgroundColor |-> "#FFFFFF",
                                 text |-> "Hello World",
                                 fontFamily |-> "Times-Roman"])}

\* the sequences of up to n different elements of S
RECURSIVE SeqsOf(_, _)
SeqsOf(S, n) ==
    IF n = 0 THEN {<<>>}
    ELSE LET shorter == SeqsOf(S, n - 1) IN
         shorter \cup {Append(q, b) : <<q, b>> \in
                        {<<q, b>> \in shorter \X S :
                            \A k \in DOMAIN q : q[k] # b}}

RECURSIVE AddAll(_, _)
AddAll(s, boxes) ==
    IF boxes = <<>> THEN s
    ELSE AddAll(addTextBox(s, Head(boxes)), Tail(boxes))

\* a.pdf loaded, then addTextBox called for some boxes
DrawDocs ==
    LET a == CHOOSE inp \in LoadInputs : inp.fileName = "a.pdf"
        s0 == loadPDF(initialState, a.fileName, a.pdfData, a.numPages, a.pages)
    IN {AddAll(s0, boxes) : boxes \in SeqsOf(DrawBoxInputs, MaxDrawBoxes)}

DrawInit ==
    /\ doc \in DrawDocs
    /\ lastOp = "init"
    /\ law = NoLaw
    /\ AppInit

CallExportPDF ==
    \E fault \in Faults :
        /\ probe' = [fn |-> "exportPDF", originalPdfData |-> doc.pdfData,
                     pages |-> doc.pages, fault |-> fault,
                     result |-> exportPDF(doc.pdfData, doc.pages, fault)]
        /\ lastOp' = "exportPDF"
        /\ UNCHANGED <<doc, law, loads, exports, events, editor, overlay>>

DrawNext == CallExportPDF

SpecDraw == DrawInit /\ [][DrawNext]_vars

\* the indices of the operations made for box id among ops
OpsFor(ops, id, kind) == {n \in DOMAIN ops : ops[n].for = id /\ ops[n].op = kind}

White == [r |-> 255, g |-> 255, b |-> 255]

\* C13 (SpecDraw): in the exported document, every text box in replace mode has
\* a filled rectangle with the bounds of the box (y from the bottom of the
\* page), in its backgroundColor or white when that is unset, before every
\* text-draw operation made for the box.
ReplaceModeDrawOrder ==
    (probe.fn = "exportPDF" /\ probe.result.ok) =>
        \A i \in DOMAIN probe.pages :
            \A k \in DOMAIN probe.pages[i].textBoxes :
                LET box == probe.pages[i].textBoxes[k]
                    ops == probe.result.pages[i].ops
                    bounds == [x |-> Unit * box.x,
                               y |-> Unit * (probe.pages[i].height - box.y - box.height),
                               width |-> Unit * box.width,
                               height |-> Unit * box.height]
                    color == IF box.backgroundColor \in {NULL, ""}
                             THEN White ELSE hexToRgb(Chars(box.backgroundColor))
                IN (box.mode = "replace") =>
                    \E r \in OpsFor(ops, box.id, "drawRectangle") :
                        /\ [f \in DOMAIN bounds |-> ops[r][f]] = bounds
                        /\ ops[r].color = color
                        /\ \A n \in OpsFor(ops, box.id, "drawText") : r < n

\* a box in replace mode was exported with a red rectangle and two lines of text
ReplaceModeDrawOrderWitness ==
    /\ probe.fn = "exportPDF"
    /\ probe.result.ok
    /\ \E n \in DOMAIN probe.result.pages[1].ops :
        LET ops == probe.result.pages[1].ops IN
        /\ ops[n].op = "drawRectangle"
        /\ ops[n].color = [r |-> 255, g |-> 0, b |-> 0]
        /\ Cardinality(OpsFor(ops, ops[n].for, "drawText")) = 2

\* the position of the box with this id among textBoxes, 0 if there is none
PositionOf(textBoxes, id) ==
    IF \E k \in DOMAIN textBoxes : textBoxes[k].id = id
    THEN CHOOSE k \in DOMAIN textBoxes : textBoxes[k].id = id
    ELSE 0

\* the texts of the drawText operations made for box id, in order
RECURSIVE TextsFor(_, _)
TextsFor(ops, id) ==
    IF ops = <<>> THEN <<>>
    ELSE (IF Head(ops).op = "drawText" /\ Head(ops).for = id
          THEN <<Head(ops).text>> ELSE <<>>)
         \o TextsFor(Tail(ops), id)

\* C14 (SpecDraw): the exported document has one page per entry of pages, page
\* i a copy of page i of the original bytes; every draw operation on page i is
\* made for a text box of pages[i], the operations follow the order of the
\* boxes in the array, a page without boxes has no operation, a box in overlay
\* mode has no rectangle, and the lines drawn for a box are the first wrapped
\* lines of its text.
ExportedPagesFollowModel ==
    (probe.fn = "exportPDF" /\ probe.result.ok) =>
        /\ Len(probe.result.pages) = Len(probe.pages)
        /\ \A i \in DOMAIN probe.pages :
            LET boxes == probe.pages[i].textBoxes
                out == probe.result.pages[i]
                ops == out.ops
            IN /\ out.copyOf = [data |-> probe.originalPdfData, index |-> i - 1]
               /\ \A n \in DOMAIN ops : PositionOf(boxes, ops[n].for) # 0
               /\ \A m, n \in DOMAIN ops :
                    m < n => PositionOf(boxes, ops[m].for) <= PositionOf(boxes, ops[n].for)
               /\ (boxes = <<>>) => (ops = <<>>)
               /\ \A k \in DOMAIN boxes :
                    LET box == boxes[k]
                        drawn == TextsFor(ops, box.id)
                        lines == wrapText(Chars(box.text), box.width - 4,
                                          embedFont(getFontForFamily(box.fontFamily)),
                                          box.fontSize)
                    IN /\ (box.mode = "overlay") => (OpsFor(ops, box.id, "drawRectangle") = {})
                       /\ Len(drawn) <= Len(lines)
                       /\ drawn = SubSeq(lines, 1, Len(drawn))

\* the two-page document with the one overlay box "Hello World" at
\* (72, 72, 200, 50) on page 0: one text at (74, 706) and nothing else on page
\* 0, nothing on page 1
ExportedPagesFollowModelWitness ==
    /\ probe.fn = "exportPDF"
    /\ probe.result.ok
    /\ Len(probe.result.pages) = 2
    /\ Len(probe.result.pages[1].ops) = 1
    /\ probe.result.pages[1].ops[1].op = "drawText"
    /\ probe.result.pages[1].ops[1].text = Chars("Hello World")
    /\ probe.result.pages[1].ops[1].x = Unit * 74
    /\ probe.result.pages[1].ops[1].y = Unit * 706
    /\ probe.result.pages[1].ops[1].size = 12
    /\ probe.result.pages[2].ops = <<>>
    /\ probe.result.pages[2].copyOf.index = 1

(***************************************************************************)
(* SpecWrap: wrapText applied to texts, widths and fonts                   *)
(***************************************************************************)
\* the texts wrapped have at most this many characters
MaxTextLen == 7

\* every text over a narrow character, a wide character and the space
TextInputs == UNION {[1 .. n -> {"a", "W", " "}] : n \in 0 .. MaxTextLen}

\* maxWidth in pt
MaxWidthInputs == {100, 85, 20}

\* a font that measures "a" 40 pt, "W" 150 pt and the space 5 pt at size 10,
\* and Courier at size 12 (7.2 pt for every character)
WrapFontInputs ==
    {[font |-> [name |-> "Example", space |-> 500, wide |-> 15000, other |-> 4000],
      fontSize |-> 10],
     [font |-> embedFont("Courier"), fontSize |-> 12]}

WrapInit ==
    /\ doc = initialState
    /\ lastOp = "init"
    /\ law = NoLaw
    /\ loads = <<>>
    /\ exports = <<>>
    /\ events = <<>>
    /\ editor = initialPreferences
    /\ overlay = NoGesture
    /\ \E text \in TextInputs, maxWidth \in MaxWidthInputs, f \in WrapFontInputs :
        probe = [fn |-> "arguments", text |-> text, maxWidth |-> maxWidth,
                 font |-> f.font, fontSize |-> f.fontSize]

CallWrapText ==
    /\ probe.fn = "arguments"
    /\ probe' = [probe EXCEPT !.fn = "wrapText"] @@
                [lines |-> wrapText(probe.text, probe.maxWidth, probe.font,
                                    probe.fontSize)]
    /\ lastOp' = "wrapText"
    /\ UNCHANGED <<doc, law, loads, exports, events, editor, overlay>>

WrapNext == CallWrapText

SpecWrap == WrapInit /\ [][WrapNext]_vars

\* the words that are not empty
NonEmpty(words) == LET Some(w) == w # <<>> IN SelectSeq(words, Some)

\* the non-empty words of all lines, in order
RECURSIVE WordsOf(_)
WordsOf(lines) ==
    IF lines = <<>> THEN <<>>
    ELSE NonEmpty(Split(Head(lines))) \o WordsOf(Tail(lines))

\* width > maxWidth, width in 1/1000 pt and maxWidth in pt
Exceeds(font, text, fontSize, maxWidth) ==
    widthOfTextAtSize(font, text, fontSize) > maxWidth * 1000

\* C15 (SpecWrap): the lines of wrapText hold the words of the text, whole and
\* in order; a word wider than maxWidth is alone on its line; a line of more
\* than one word measures at most maxWidth; and a line ends only where the
\* line plus a space plus the first word of the next line measures more than
\* maxWidth.
WordWrapBoundary ==
    (probe.fn = "wrapText") =>
        LET lines == probe.lines
            Wide(t) == Exceeds(probe.font, t, probe.fontSize, probe.maxWidth)
        IN /\ WordsOf(lines) = NonEmpty(Split(probe.text))
           /\ \A i \in DOMAIN lines :
                /\ lines[i] # <<>>
                /\ \A k \in DOMAIN Split(lines[i]) :
                    Wide(Split(lines[i])[k]) => (lines[i] = Split(lines[i])[k])
                /\ (Len(Split(lines[i])) > 1) => ~Wide(lines[i])
           /\ \A i \in 1 .. (Len(lines) - 1) :
                Wide(lines[i] \o <<" ">> \o Head(Split(lines[i + 1])))

\* maxWidth 100, a word of 150, then three words of 40 with spaces of 5: the
\* wide word alone, two words on a line (85), the third on a new line
WordWrapBoundaryWitness ==
    /\ probe.fn = "wrapText"
    /\ probe.maxWidth = 100
    /\ probe.text = <<"W", " ", "a", " ", "a", " ", "a">>
    /\ probe.font.name = "Example"
    /\ probe.lines = << <<"W">>, <<"a", " ", "a">>, <<"a">> >>


\* ---------------------------------------------------------------------------
\* The toolbar's Download button (handleExport)
\* ---------------------------------------------------------------------------

\* exports in flight at once
MaxExports == 2

ExportAlert == [kind |-> "alert",
                message |-> "Failed to export PDF. Please try again."]

\* fileName ? fileName.replace('.pdf', '_edited.pdf') : 'edited.pdf'
exportFileName(fileName) ==
    IF ~Truthy(fileName) THEN "edited.pdf"
    ELSE CASE fileName = "a.pdf" -> "a_edited.pdf"
           [] fileName = "b.pdf" -> "b_edited.pdf"
           [] fileName = "c.pdf" -> "c_edited.pdf"
           [] OTHER -> fileName

\* downloadBlob(blob, fileName): the file offered to the user
downloadBlob(blob, fileName) ==
    [kind |-> "download", fileName |-> fileName, blob |-> blob]

\* handleExport up to its await: nothing without pdfData; otherwise exportPDF
\* is called with the pdfData and pages of the render the handler belongs to,
\* and fileName stays in the handler's closure
handleExport(s, pending) ==
    IF ~Truthy(s.pdfData)
    THEN [doc |-> s, exports |-> pending]
    ELSE [doc |-> s,
          exports |-> Append(pending, [pdfData |-> s.pdfData,
                                       pages |-> s.pages,
                                       fileName |-> s.fileName])]

\* handleExport with the exported bytes kept as the document's bytes
exportSettled_keepsExportedBytes(s, job, fault) ==
    LET r == exportPDF(job.pdfData, job.pages, fault) IN
    IF r.ok
    THEN [doc |-> [s EXCEPT !.pdfData = "exportedBytes"],
          events |-> <<downloadBlob(r.pages, exportFileName(job.fileName))>>]
    ELSE [doc |-> s, events |-> <<ExportAlert>>]

\* handleExport with the pages read from the store when exportPDF runs
exportSettled_readsStore(s, job, fault) ==
    LET r == exportPDF(job.pdfData, s.pages, fault) IN
    IF r.ok
    THEN [doc |-> s,
          events |-> <<downloadBlob(r.pages, exportFileName(job.fileName))>>]
    ELSE [doc |-> s, events |-> <<ExportAlert>>]

\* handleExport with the download offered in the catch branch too
exportSettled_downloadsAnyway(s, job, fault) ==
    LET r == exportPDF(job.pdfData, job.pages, fault) IN
    IF r.ok
    THEN [doc |-> s,
          events |-> <<downloadBlob(r.pages, exportFileName(job.fileName))>>]
    ELSE [doc |-> s,
          events |-> <<ExportAlert,
                       downloadBlob(<<>>, exportFileName(job.fileName))>>]

\* handleExport after its await: downloadBlob when exportPDF resolved, the
\* alert of the catch branch when it rejected
exportSettled(s, job, fault) ==
    LET r == exportPDF(job.pdfData, job.pages, fault) IN
    IF r.ok
    THEN [doc |-> s,
          events |-> <<downloadBlob(r.pages, exportFileName(job.fileName))>>]
    ELSE [doc |-> s, events |-> <<ExportAlert>>]

\* the Toolbar, and with it the Download button, is rendered once a document
\* is loaded
HandleExport ==
    /\ doc.isLoaded
    /\ Len(exports) < MaxExports
    /\ LET after == handleExport(doc, exports) IN
        /\ doc' = after.doc
        /\ exports' = after.exports
    /\ lastOp' = "handleExport"
    /\ law' = NoLaw
    /\ UNCHANGED <<loads, events, editor, probe, overlay>>

\* the exports settle in any order; each resolves, or rejects at one of the
\* steps of exportPDF; probe keeps the call of exportPDF that settled
ExportSettles ==
    \E i \in 1 .. Len(exports), fault \in Faults :
        LET after == exportSettled(doc, exports[i], fault) IN
        /\ doc' = after.doc
        /\ events' = after.events
        /\ exports' = RemoveAt(exports, i)
        /\ probe' = [fn |-> "exportPDF",
                     originalPdfData |-> exports[i].pdfData,
                     pages |-> exports[i].pages,
                     fault |-> fault,
                     result |-> exportPDF(exports[i].pdfData, exports[i].pages,
                                          fault)]
        /\ lastOp' = "exportSettled"
        /\ law' = NoLaw
        /\ UNCHANGED <<loads, editor, overlay>>

\* the edits made while exports are in flight
ExportEdits ==
    {m \in Mutations :
        \/ m.op = "addTextBox" /\ m.textBox = NewTextBox("b1", 1)
        \/ m.op \in {"updateTextBox", "deleteTextBox"} /\ m.id = "b1"}

\* one store mutation
ExportEdit ==
    \E m \in ExportEdits :
        /\ MutationOk(doc, m)
        /\ doc' = Mutate(doc, m)
        /\ lastOp' = m.op
        /\ law' = NoLaw
        /\ UNCHANGED appVars

\* store states SpecExport starts from: no document, a fresh document, and a
\* document with a selected box and a snapshot in past
ExportStarts ==
    LET a == CHOOSE inp \in LoadInputs : inp.fileName = "a.pdf"
        s0 == loadPDF(initialState, a.fileName, a.pdfData, a.numPages, a.pages)
        s1 == selectTextBox(addTextBox(saveHistory(s0), NewTextBox("b1", 1)),
                            "b1")
    IN {initialState, s0, s1}

ExportInit ==
    /\ doc \in ExportStarts
    /\ lastOp = "init"
    /\ law = NoLaw
    /\ AppInit

ExportNext ==
    \/ HandleExport
    \/ ExportSettles
    \/ ExportEdit
    \/ LoadPDF
    \/ Undo
    \/ Redo

SpecExport == ExportInit /\ [][ExportNext]_vars

\* the bytes of the files loaded
LoadedBytes == {inp.pdfData : inp \in LoadInputs}

\* C16 (SpecExport): starting an export and its completion or failure leave
\* the document store (pdfData, pages, selection, history among the rest) as
\* it was; every export started reads the bytes of the loaded file; and an
\* export made again from the store as a completed export left it emits the
\* same pages and draw operations.
ExportLeavesStoreUnchanged ==
    [][/\ (lastOp' = "handleExport") =>
            /\ doc' = doc
            /\ \A k \in 1 .. Len(exports') : exports'[k].pdfData \in LoadedBytes
       /\ \A i \in 1 .. Len(exports) :
            (lastOp' = "exportSettled" /\ exports' = RemoveAt(exports, i)) =>
                /\ doc' = doc
                /\ (/\ events'[1].kind = "download"
                    /\ exports[i].pages = doc.pages
                    /\ exports[i].pdfData = doc.pdfData) =>
                        LET again == exportPDF(doc'.pdfData, doc'.pages, "none")
                        IN again.ok /\ again.pages = events'[1].blob]_vars

\* an export of a document with a selected box and a snapshot in past has
\* completed with the box drawn, and a second export of the same store is in
\* flight
ExportLeavesStoreUnchangedWitness ==
    /\ lastOp = "exportSettled"
    /\ Len(events) = 1
    /\ events[1].kind = "download"
    /\ \E p \in DOMAIN events[1].blob : events[1].blob[p].ops # <<>>
    /\ doc.selection.selectedBoxId = "b1"
    /\ doc.history.past # <<>>
    /\ Len(exports) = 1
    /\ exports[1].pages = doc.pages
    /\ exports[1].pdfData = doc.pdfData

\* C17 (SpecExport): at most one export is in flight.
AtMostOneExportInFlight == Len(exports) <= 1

\* C18 (SpecExport): an export draws from the pdfData and pages the store held
\* when the Download handler was invoked: the handler passes them to
\* exportPDF, no store action in between changes them, and the file offered
\* holds the pages and draw operations exportPDF makes of them.
ExportDrawsCapturedState ==
    [][/\ (lastOp' = "handleExport") =>
            exports' = Append(exports, [pdfData |-> doc.pdfData,
                                        pages |-> doc.pages,
                                        fileName |-> doc.fileName])
       /\ (lastOp' \notin {"handleExport", "exportSettled"}) =>
            exports' = exports
       /\ \A i \in 1 .. Len(exports) :
            (/\ lastOp' = "exportSettled"
             /\ exports' = RemoveAt(exports, i)
             /\ probe'.pages = exports[i].pages
             /\ probe'.originalPdfData = exports[i].pdfData
             /\ probe'.result.ok) =>
                events' = <<downloadBlob(
                              exportPDF(exports[i].pdfData, exports[i].pages,
                                        "none").pages,
                              exportFileName(exports[i].fileName))>>]_vars

\* an export invoked with box b1 on page 1 of a.pdf has completed with the
\* box drawn although the store's page 1 holds no box any more
ExportDrawsCapturedStateWitness ==
    /\ lastOp = "exportSettled"
    /\ Len(events) = 1
    /\ events[1].kind = "download"
    /\ events[1].fileName = "a_edited.pdf"
    /\ Len(events[1].blob) = 2
    /\ events[1].blob[2].copyOf = [data |-> "bytesA", index |-> 1]
    /\ \E k \in DOMAIN events[1].blob[2].ops :
            events[1].blob[2].ops[k].for = "b1"
    /\ doc.fileName = "a.pdf"
    /\ Len(doc.pages) = 2
    /\ doc.pages[2].textBoxes = <<>>

\* C19 (SpecExport): when exportPDF rejects, at whichever step, the handler
\* shows one alert and nothing else, offers no file, and the export leaves
\* the exports in flight without another one being started.
ExportFailureAlertsOnce ==
    [][(lastOp' = "exportSettled" /\ ~probe'.result.ok) =>
            /\ events' = <<ExportAlert>>
            /\ \E i \in 1 .. Len(exports) : exports' = RemoveAt(exports, i)]_vars

\* copying the pages failed for an export of a document with a box
ExportFailureAlertsOnceWitness ==
    /\ lastOp = "exportSettled"
    /\ probe.fn = "exportPDF"
    /\ probe.fault = "copyPages"
    /\ ~probe.result.ok
    /\ \E p \in DOMAIN probe.pages : probe.pages[p].textBoxes # <<>>
    /\ events = <<ExportAlert>>
    /\ exports = <<>>


(***************************************************************************)
(* Screen and PDF coordinates (screenToPDF, pdfToScreen)                   *)
(***************************************************************************)
\* a number as the fraction n / d with d > 0; the arithmetic is exact
Frac(n, d) == [n |-> n, d |-> d]

FracEq(a, b) == a.n * b.d = b.n * a.d

RECURSIVE GCD(_, _)
GCD(a, b) == IF b = 0 THEN a ELSE GCD(b, a % b)

\* n / d in lowest terms
Lowest(n, d) ==
    LET g == GCD(IF n < 0 THEN -n ELSE n, d) IN Frac(n \div g, d \div g)

FracAdd(a, b) == Lowest(a.n * b.d + b.n * a.d, a.d * b.d)

FracSub(a, b) == Lowest(a.n * b.d - b.n * a.d, a.d * b.d)

FracMul(a, b) == Lowest(a.n * b.n, a.d * b.d)

\* a / b for b # 0
FracDiv(a, b) ==
    IF b.n > 0 THEN Lowest(a.n * b.d, a.d * b.n)
    ELSE Lowest(-(a.n * b.d), -(a.d * b.n))

\* the default containerOffset
NoOffset == [x |-> Frac(0, 1), y |-> Frac(0, 1)]

\* screenToPDF with the offset added
screenToPDF_addsOffset(screenX, screenY, zoom, containerOffset) ==
    [x |-> FracDiv(FracAdd(screenX, containerOffset.x), zoom),
     y |-> FracDiv(FracAdd(screenY, containerOffset.y), zoom)]

screenToPDF(screenX, screenY, zoom, containerOffset) ==
    [x |-> FracDiv(FracSub(screenX, containerOffset.x), zoom),
     y |-> FracDiv(FracSub(screenY, containerOffset.y), zoom)]

pdfToScreen(pdfX, pdfY, zoom, containerOffset) ==
    [x |-> FracAdd(FracMul(pdfX, zoom), containerOffset.x),
     y |-> FracAdd(FracMul(pdfY, zoom), containerOffset.y)]

\* x kept as it is, negative or not
FracMax0_noClamp(q) == q

\* Math.max(0, q)
FracMax0(q) == IF q.n < 0 THEN Frac(0, 1) ELSE q

\* the whole number a fraction is equal to: the coordinates of the boxes of
\* the model are whole points
Whole(q) == CHOOSE k \in {q.n \div q.d} : k * q.d = q.n

(***************************************************************************)
(* SpecFont: the text tool and the toolbar's font-size field               *)
(***************************************************************************)
\* SpecFont: a handler that calls saveHistory runs while history.past holds
\* fewer snapshots than this
MaxFontPast == 2

\* Number(e.target.value) for what is typed into the font-size field
FontSizeFieldInputs == {0, 24, 200, 500}

\* the box of pages whose id is the selected id, as <<box>>, or <<>> for null
selectedBox(s) ==
    LET id == s.selection.selectedBoxId
        found == {b \in UNION {{s.pages[p].textBoxes[k] :
                                    k \in DOMAIN s.pages[p].textBoxes} :
                               p \in DOMAIN s.pages} : b.id = id}
    IN IF Truthy(id) /\ found # {} THEN <<CHOOSE b \in found : TRUE>> ELSE <<>>

\* updateFontSize of the Toolbar, on both stores
updateFontSize(s, e, fontSize) ==
    LET box == selectedBox(s) IN
    [doc |-> IF box # <<>>
             THEN updateTextBox(saveHistory(s), box[1].id,
                                [fontSize |-> fontSize])
             ELSE s,
     editor |-> setDefaultFontSize(e, fontSize)]

\* handlePageClick of the page with index pageIndex: click is the position
\* of the pointer in the page container (clientX - rect.left, clientY -
\* rect.top), id is what generateId returns
handlePageClick(s, e, pageIndex, click, id) ==
    IF e.activeTool # "text" \/ (pageIndex + 1) \notin DOMAIN s.pages
    THEN s
    ELSE LET pt == screenToPDF(Frac(click.x, 1), Frac(click.y, 1),
                               Frac(s.zoom, 100), NoOffset)
             newTextBox == [id |-> id,
                            pageIndex |-> pageIndex,
                            x |-> Whole(FracMax0(pt.x)),
                            y |-> Whole(FracMax0(pt.y)),
                            width |-> 200,
                            height |-> 50,
                            text |-> "New Text",
                            fontFamily |-> e.defaultFontFamily,
                            fontSize |-> e.defaultFontSize,
                            color |-> e.defaultColor,
                            fontWeight |-> "normal",
                            textAlign |-> "left",
                            backgroundColor |-> NULL,
                            mode |-> "overlay"]
         IN enterEditMode(selectTextBox(addTextBox(saveHistory(s), newTextBox),
                                        newTextBox.id))

\* positions of a click in the page container, in pixels
ClickInputs == {[x |-> 144, y |-> 72], [x |-> -2, y |-> 300]}

\* the tool buttons of the Toolbar
SetActiveTool ==
    \E tool \in {"select", "text"} :
        /\ doc.isLoaded
        /\ editor' = setActiveTool(editor, tool)
        /\ lastOp' = "setActiveTool"
        /\ law' = NoLaw
        /\ UNCHANGED <<doc, loads, exports, events, probe, overlay>>

\* a click at this point of the page with this index, generateId returning id
PageClicked(pageIndex, click, id) ==
    /\ doc.isLoaded
    /\ id \notin IdsIn(doc.pages)
    /\ Len(doc.history.past) < MaxFontPast
    /\ doc' = handlePageClick(doc, editor, pageIndex, click, id)
    /\ lastOp' = "handlePageClick"
    /\ law' = NoLaw
    /\ UNCHANGED appVars

\* a click on one of the pages shown
HandlePageClick ==
    \E pageIndex \in 0 .. (doc.numPages - 1), click \in ClickInputs,
       id \in BoxIds :
        PageClicked(pageIndex, click, id)

\* a number typed into the font-size field of the Toolbar
UpdateFontSize ==
    \E fontSize \in FontSizeFieldInputs :
        /\ doc.isLoaded
        /\ Len(doc.history.past) < MaxFontPast
        /\ LET after == updateFontSize(doc, editor, fontSize) IN
            /\ doc' = after.doc
            /\ editor' = after.editor
        /\ probe' = [fn |-> "updateFontSize", value |-> fontSize]
        /\ lastOp' = "updateFontSize"
        /\ law' = NoLaw
        /\ UNCHANGED <<loads, exports, events, overlay>>

FontNext ==
    \/ LoadPDF
    \/ SetActiveTool
    \/ HandlePageClick
    \/ UpdateFontSize
    \/ SelectTextBox

SpecFont == Init /\ [][FontNext]_vars

\* C20 (SpecFont): every text box of every page has a fontSize from
\* FontSizeMin to FontSizeMax.
FontSizeWithinRange ==
    \A p \in DOMAIN doc.pages :
        \A k \in DOMAIN doc.pages[p].textBoxes :
            /\ doc.pages[p].textBoxes[k].fontSize >= FontSizeMin
            /\ doc.pages[p].textBoxes[k].fontSize <= FontSizeMax


(***************************************************************************)
(* SpecPages: files opened, text boxes added, updated and deleted through  *)
(* the store, snapshots, undo and redo                                     *)
(***************************************************************************)
\* the mutations of SpecPages: a box added on the first page, its text and its
\* pageIndex updated (Partial<TextBox>), the box deleted
PagesEdits ==
    {[op |-> "addTextBox", textBox |-> NewTextBox("b1", 0)],
     [op |-> "updateTextBox", id |-> "b1", updates |-> [text |-> "Hi"]],
     [op |-> "updateTextBox", id |-> "b1", updates |-> [pageIndex |-> 5]],
     [op |-> "deleteTextBox", id |-> "b1"]}

\* one store mutation
PagesEdit ==
    \E m \in PagesEdits :
        /\ MutationOk(doc, m)
        /\ doc' = Mutate(doc, m)
        /\ lastOp' = m.op
        /\ law' = NoLaw
        /\ UNCHANGED appVars

PagesNext ==
    \/ HandleFileChange
    \/ FileChangeSettles
    \/ ClearDocument
    \/ PagesEdit
    \/ SaveHistory
    \/ Undo
    \/ Redo

SpecPages == Init /\ [][PagesNext]_vars

\* C21 (SpecPages): the pageIndex of every text box held in pages is the index
\* of a page of the document.
PageIndexInRange ==
    \A p \in DOMAIN doc.pages :
        \A k \in DOMAIN doc.pages[p].textBoxes :
            /\ doc.pages[p].textBoxes[k].pageIndex >= 0
            /\ doc.pages[p].textBoxes[k].pageIndex < Len(doc.pages)

\* index, width and height of every page
Geometry(pages) ==
    [i \in DOMAIN pages |-> [index |-> pages[i].index,
                             width |-> pages[i].width,
                             height |-> pages[i].height]]

\* C22 (SpecPages): a file that loads installs pages with index 0, 1, ... in
\* order, positive width and height and no text box; every step that is not a
\* load or a clear (a text-box mutation, saveHistory, undo, redo) keeps the
\* number of pages and the index, width and height of each.
PageGeometryFixed ==
    [][/\ (lastOp' \notin {"fileChangeSettled", "clearDocument"}) =>
            Geometry(doc'.pages) = Geometry(doc.pages)
       /\ \A i \in 1 .. Len(loads) :
            (/\ lastOp' = "fileChangeSettled"
             /\ loads' = RemoveAt(loads, i)
             /\ loadPDFFromFile(loads[i]).ok) =>
                /\ Len(doc'.pages) = doc'.numPages
                /\ \A p \in DOMAIN doc'.pages :
                    /\ doc'.pages[p].index = p - 1
                    /\ doc'.pages[p].width > 0
                    /\ doc'.pages[p].height > 0
                    /\ doc'.pages[p].textBoxes = <<>>]_vars

\* b.pdf was edited and the edit undone and redone: its one page holds the
\* box and has the size it was loaded with
PageGeometryFixedWitness ==
    /\ lastOp = "redo"
    /\ doc.fileName = "b.pdf"
    /\ Geometry(doc.pages) = <<[index |-> 0, width |-> 595, height |-> 842]>>
    /\ doc.pages[1].textBoxes # <<>>
    /\ doc.history.past # <<>>


(***************************************************************************)
(* SpecColour: hexToRgb applied to strings                                 *)
(***************************************************************************)
\* the strings parsed have at most this many characters
MaxHexLen == 7

\* the characters of the strings parsed: the #, hexadecimal digits in upper
\* and in lower case, and a letter that is no hexadecimal digit
HexAlphabet == {"#", "0", "F", "a", "g"}

HexInputs == UNION {[1 .. n -> HexAlphabet] : n \in 0 .. MaxHexLen}

ColourInit ==
    /\ doc = initialState
    /\ lastOp = "init"
    /\ law = NoLaw
    /\ loads = <<>>
    /\ exports = <<>>
    /\ events = <<>>
    /\ editor = initialPreferences
    /\ overlay = NoGesture
    /\ \E hex \in HexInputs : probe = [fn |-> "arguments", hex |-> hex]

CallHexToRgb ==
    /\ probe.fn = "arguments"
    /\ probe' = [fn |-> "hexToRgb", hex |-> probe.hex,
                 result |-> hexToRgb(probe.hex)]
    /\ UNCHANGED <<doc, lastOp, law, loads, exports, events, editor, overlay>>

ColourNext == CallHexToRgb

SpecColour == ColourInit /\ [][ColourNext]_vars

\* what base 16 gives the digits of HexAlphabet
Sixteenths == [c \in {"0", "F", "a"} |-> CASE c = "0" -> 0
                                            [] c = "F" -> 15
                                            [] c = "a" -> 10]

\* C23 (SpecColour): a string of exactly six hexadecimal digits, with or
\* without a # in front, gives its three channels (two digits each, over
\* 255); every other string gives black.
HexParsing ==
    (probe.fn = "hexToRgb") =>
        LET hex == probe.hex
            six == IF Len(hex) = 7 /\ hex[1] = "#" THEN Tail(hex) ELSE hex
            Channel(i) == 16 * Sixteenths[six[i]] + Sixteenths[six[i + 1]]
        IN IF Len(six) = 6 /\ \A i \in 1 .. 6 : six[i] \in DOMAIN Sixteenths
           THEN probe.result = [r |-> Channel(1), g |-> Channel(3),
                                b |-> Channel(5)]
           ELSE probe.result = [r |-> 0, g |-> 0, b |-> 0]

\* "#FF0000" gives (255, 0, 0) over 255, which is (1, 0, 0)
HexParsingWitness ==
    /\ probe.fn = "hexToRgb"
    /\ probe.hex = <<"#", "F", "F", "0", "0", "0", "0">>
    /\ probe.result = [r |-> 255, g |-> 0, b |-> 0]


(***************************************************************************)
(* SpecCoords: screenToPDF and pdfToScreen applied one after the other     *)
(***************************************************************************)
\* SpecCoords: at most this many conversions are applied one after the other
MaxCalls == 2

\* zoom levels from ZoomMin to ZoomMax, in hundredths
CoordZooms == {ZoomMin, 33, ZoomInitial, ZoomInitial + ZoomStep, 150, ZoomMax}

CoordOffsets == {NoOffset,
                 [x |-> Frac(10, 1), y |-> Frac(20, 1)],
                 [x |-> Frac(-15, 2), y |-> Frac(7, 1)]}

\* points, on and off the page, whole and fractional
CoordPoints == {[x |-> Frac(0, 1), y |-> Frac(0, 1)],
                [x |-> Frac(72, 1), y |-> Frac(720, 1)],
                [x |-> Frac(-3, 1), y |-> Frac(1, 3)],
                [x |-> Frac(611, 2), y |-> Frac(-5, 4)]}

CoordInit ==
    /\ doc = initialState
    /\ lastOp = "init"
    /\ law = NoLaw
    /\ loads = <<>>
    /\ exports = <<>>
    /\ events = <<>>
    /\ editor = initialPreferences
    /\ overlay = NoGesture
    /\ \E p \in CoordPoints, z \in CoordZooms, o \in CoordOffsets :
        probe = [fn |-> "arguments", start |-> p, zoom |-> Frac(z, 100),
                 containerOffset |-> o, point |-> p, calls |-> <<>>]

CallPdfToScreen ==
    /\ probe.fn # "none"
    /\ Len(probe.calls) < MaxCalls
    /\ probe' = [probe EXCEPT
                    !.fn = "pdfToScreen",
                    !.point = pdfToScreen(probe.point.x, probe.point.y,
                                          probe.zoom, probe.containerOffset),
                    !.calls = Append(@, "pdfToScreen")]
    /\ UNCHANGED <<doc, lastOp, law, loads, exports, events, editor, overlay>>

CallScreenToPDF ==
    /\ probe.fn # "none"
    /\ Len(probe.calls) < MaxCalls
    /\ probe' = [probe EXCEPT
                    !.fn = "screenToPDF",
                    !.point = screenToPDF(probe.point.x, probe.point.y,
                                          probe.zoom, probe.containerOffset),
                    !.calls = Append(@, "screenToPDF")]
    /\ UNCHANGED <<doc, lastOp, law, loads, exports, events, editor, overlay>>

CoordNext == CallPdfToScreen \/ CallScreenToPDF

SpecCoords == CoordInit /\ [][CoordNext]_vars

\* C24 (SpecCoords): screenToPDF after pdfToScreen, and pdfToScreen after
\* screenToPDF, with the same zoom and offset, give back the point they
\* started from.
CoordRoundTrip ==
    (/\ probe.fn \in {"pdfToScreen", "screenToPDF"}
     /\ probe.calls \in {<<"pdfToScreen", "screenToPDF">>,
                         <<"screenToPDF", "pdfToScreen">>}) =>
        /\ FracEq(probe.point.x, probe.start.x)
        /\ FracEq(probe.point.y, probe.start.y)

\* (-3, 1/3) at zoom 0.33 with the offset (-7.5, 7) went to the screen and
\* back
CoordRoundTripWitness ==
    /\ probe.fn = "screenToPDF"
    /\ probe.calls = <<"pdfToScreen", "screenToPDF">>
    /\ probe.start = [x |-> Frac(-3, 1), y |-> Frac(1, 3)]
    /\ probe.zoom = Frac(33, 100)
    /\ probe.containerOffset = [x |-> Frac(-15, 2), y |-> Frac(7, 1)]
    /\ FracEq(probe.point.x, Frac(-3, 1))
    /\ FracEq(probe.point.y, Frac(1, 3))


(***************************************************************************)
(* The handlers of PDFPage, TextBoxOverlay and App                         *)
(***************************************************************************)
\* the text box with this id, as <<box>>, or <<>> when pages holds none
boxWithId(s, id) ==
    LET found == {b \in UNION {{s.pages[p].textBoxes[k] :
                                    k \in DOMAIN s.pages[p].textBoxes} :
                               p \in DOMAIN s.pages} : b.id = id}
    IN IF found # {} THEN <<CHOOSE b \in found : TRUE>> ELSE <<>>

\* the props isSelected and isEditing PDFPage gives the overlay of a box
isSelected(s, id) == s.selection.selectedBoxId = id

isEditing(s, id) == s.selection.isEditing /\ s.selection.selectedBoxId = id

\* onSelect without the snapshot
onSelect_noSnapshot(s, id) == selectTextBox(s, id)

\* the callbacks PDFPage gives the overlay of the box with this id
onSelect(s, id) == selectTextBox(saveHistory(s), id)

onUpdate(s, id, updates) == updateTextBox(s, id, updates)

onDelete(s, id) == deleteTextBox(saveHistory(s), id)

\* handleCanvasClick: onContainer is e.target === e.currentTarget
handleCanvasClick(s, onContainer) ==
    IF onContainer THEN exitEditMode(selectTextBox(s, NULL)) ELSE s

\* handleMouseDown of the overlay of a box, e the pointer position
handleMouseDown(s, o, id, e) ==
    IF isEditing(s, id) THEN [doc |-> s, overlay |-> o]
    ELSE LET textBox == boxWithId(s, id)[1]
             zoom == Frac(s.zoom, 100)
         IN [doc |-> onSelect(s, id),
             overlay |->
                [id |-> id,
                 isDragging |-> TRUE,
                 isResizing |-> o.isResizing,
                 dragStart |->
                    [x |-> Whole(FracSub(Frac(e.x, 1),
                                         FracMul(Frac(textBox.x, 1), zoom))),
                     y |-> Whole(FracSub(Frac(e.y, 1),
                                         FracMul(Frac(textBox.y, 1), zoom)))]]]

\* handleResizeMouseDown without e.stopPropagation()
handleResizeMouseDown_propagates(s, o, id, e) ==
    [doc |-> s,
     overlay |-> [id |-> id, isDragging |-> o.isDragging, isResizing |-> TRUE,
                  dragStart |-> [x |-> e.x, y |-> e.y]],
     stopped |-> FALSE]

\* handleResizeMouseDown of the resize handle of a box; stopped says that the
\* event is kept from the overlay the handle lies in
handleResizeMouseDown(s, o, id, e) ==
    [doc |-> s,
     overlay |-> [id |-> id, isDragging |-> o.isDragging, isResizing |-> TRUE,
                  dragStart |-> [x |-> e.x, y |-> e.y]],
     stopped |-> TRUE]

\* handleMouseMove without the minimum width and height
handleMouseMove_noMinimum(s, o, e) ==
    LET textBox == boxWithId(s, o.id)[1]
        zoom == Frac(s.zoom, 100)
        deltaX == Frac(e.x - o.dragStart.x, 1)
        deltaY == Frac(e.y - o.dragStart.y, 1)
    IN IF o.isDragging
       THEN [doc |-> onUpdate(s, o.id,
                        [x |-> Whole(FracMax0(FracDiv(deltaX, zoom))),
                         y |-> Whole(FracMax0(FracDiv(deltaY, zoom)))]),
             overlay |-> o]
       ELSE IF o.isResizing
       THEN [doc |-> onUpdate(s, o.id,
                        [width |-> Whole(FracAdd(Frac(textBox.width, 1),
                                                 FracDiv(deltaX, zoom))),
                         height |-> Whole(FracAdd(Frac(textBox.height, 1),
                                                  FracDiv(deltaY, zoom)))]),
             overlay |-> [o EXCEPT !.dragStart = [x |-> e.x, y |-> e.y]]]
       ELSE [doc |-> s, overlay |-> o]

\* handleMouseMove of the overlay that is dragging or resizing
handleMouseMove(s, o, e) ==
    LET textBox == boxWithId(s, o.id)[1]
        zoom == Frac(s.zoom, 100)
        deltaX == Frac(e.x - o.dragStart.x, 1)
        deltaY == Frac(e.y - o.dragStart.y, 1)
    IN IF o.isDragging
       THEN [doc |-> onUpdate(s, o.id,
                        [x |-> Whole(FracMax0(FracDiv(deltaX, zoom))),
                         y |-> Whole(FracMax0(FracDiv(deltaY, zoom)))]),
             overlay |-> o]
       ELSE IF o.isResizing
       THEN [doc |-> onUpdate(s, o.id,
                        [width |-> Max(50, Whole(FracAdd(Frac(textBox.width, 1),
                                                 FracDiv(deltaX, zoom)))),
                         height |-> Max(20, Whole(FracAdd(Frac(textBox.height, 1),
                                                  FracDiv(deltaY, zoom))))]),
             overlay |-> [o EXCEPT !.dragStart = [x |-> e.x, y |-> e.y]]]
       ELSE [doc |-> s, overlay |-> o]

handleMouseUp(o) == [o EXCEPT !.isDragging = FALSE, !.isResizing = FALSE]

handleDoubleClick(s, id) == IF ~isEditing(s, id) THEN onSelect(s, id) ELSE s

handleTextChange(s, id, value) == onUpdate(s, id, [text |-> value])

\* handleKeyDown of the overlay with the Delete key pressed while editing too
handleKeyDown_whileEditing(s, id, key) ==
    IF key = "Escape" THEN s
    ELSE IF key = "Delete" /\ isSelected(s, id) THEN onDelete(s, id)
    ELSE s

\* handleKeyDown of the overlay of a box; Escape takes the focus from the
\* textarea and changes neither store
handleKeyDown(s, id, key) ==
    IF key = "Escape" THEN s
    ELSE IF key = "Delete" /\ ~isEditing(s, id) /\ isSelected(s, id)
    THEN onDelete(s, id)
    ELSE s

\* handleKeyDown of App (window): e is the key with its modifiers
appKeyDown(s, ed, e) ==
    LET tool == IF e.key = "v" /\ ~e.ctrl /\ ~s.selection.isEditing
                THEN setActiveTool(ed, "select")
                ELSE IF e.key = "t" /\ ~e.ctrl /\ ~s.selection.isEditing
                THEN setActiveTool(ed, "text")
                ELSE ed
        s1 == IF e.ctrl /\ e.key = "z"
              THEN (IF e.shift THEN redo(s) ELSE undo(s))
              ELSE s
        s2 == IF /\ e.key = "Enter"
                 /\ Truthy(s.selection.selectedBoxId)
                 /\ ~s.selection.isEditing
              THEN enterEditMode(s1)
              ELSE s1
    IN [doc |-> s2, editor |-> tool]

\* the state of a component goes with the component: a box that is no longer
\* in pages has no overlay
Mounted(o, s) ==
    IF o.id # NULL /\ boxWithId(s, o.id) = <<>> THEN NoGesture ELSE o


(***************************************************************************)
(* SpecEdit: creating, selecting, typing into and deleting text boxes      *)
(* through the handlers                                                    *)
(***************************************************************************)
\* where the pointer is pressed on a box
MouseDownInputs == {[x |-> 150, y |-> 80]}

\* the keys the overlay of a box is given
OverlayKeys == {"Escape", "Delete", "a"}

\* the keys the window is given, with their modifiers
AppKeys ==
    {[key |-> "v", ctrl |-> FALSE, shift |-> FALSE],
     [key |-> "t", ctrl |-> FALSE, shift |-> FALSE],
     [key |-> "Enter", ctrl |-> FALSE, shift |-> FALSE],
     [key |-> "z", ctrl |-> FALSE, shift |-> FALSE],
     [key |-> "z", ctrl |-> TRUE, shift |-> FALSE],
     [key |-> "z", ctrl |-> TRUE, shift |-> TRUE]}

\* the texts typed into the textarea of a box
TypedTexts == {"Hi"}

\* SpecEdit, SpecGesture: a handler of an overlay that calls saveHistory runs
\* while history.past holds fewer snapshots than this
MaxEditPast == 3

\* a file is opened: every overlay of the document before goes
OpenPDF ==
    \E inp \in LoadInputs :
        /\ doc' = loadPDF(doc, inp.fileName, inp.pdfData, inp.numPages, inp.pages)
        /\ overlay' = Mounted(overlay, doc')
        /\ lastOp' = "loadPDF"
        /\ law' = NoLaw
        /\ UNCHANGED <<loads, exports, events, editor, probe>>

\* a click that reaches the container of the pages
HandleCanvasClick ==
    \E onContainer \in BOOLEAN :
        /\ doc.isLoaded
        /\ doc' = handleCanvasClick(doc, onContainer)
        /\ lastOp' = "handleCanvasClick"
        /\ law' = NoLaw
        /\ UNCHANGED appVars

\* the pointer is pressed on a box shown, no button being held
HandleMouseDown ==
    \E id \in IdsIn(doc.pages), e \in MouseDownInputs :
        /\ ~overlay.isDragging /\ ~overlay.isResizing
        /\ Len(doc.history.past) < MaxEditPast
        /\ LET after == handleMouseDown(doc, overlay, id, e) IN
            /\ doc' = after.doc
            /\ overlay' = after.overlay
        /\ lastOp' = "handleMouseDown"
        /\ law' = NoLaw
        /\ UNCHANGED <<loads, exports, events, editor, probe>>

\* the button is released while an overlay listens on the window
HandleMouseUp ==
    /\ overlay.isDragging \/ overlay.isResizing
    /\ overlay' = handleMouseUp(overlay)
    /\ lastOp' = "handleMouseUp"
    /\ law' = NoLaw
    /\ UNCHANGED <<doc, loads, exports, events, editor, probe>>

HandleDoubleClick ==
    \E id \in IdsIn(doc.pages) :
        /\ Len(doc.history.past) < MaxEditPast
        /\ doc' = handleDoubleClick(doc, id)
        /\ lastOp' = "handleDoubleClick"
        /\ law' = NoLaw
        /\ UNCHANGED appVars

\* the textarea is there only while its box is edited
HandleTextChange ==
    \E id \in IdsIn(doc.pages), value \in TypedTexts :
        /\ isEditing(doc, id)
        /\ doc' = handleTextChange(doc, id, value)
        /\ lastOp' = "handleTextChange"
        /\ law' = NoLaw
        /\ UNCHANGED appVars

\* what lastOp holds after a key was pressed on an overlay
KeyDownOp(key) ==
    IF key = "Escape" THEN "handleKeyDown(Escape)" ELSE "handleKeyDown"

\* a key pressed on the overlay of a box shown
HandleKeyDown ==
    \E id \in IdsIn(doc.pages), key \in OverlayKeys :
        /\ Len(doc.history.past) < MaxEditPast
        /\ doc' = handleKeyDown(doc, id, key)
        /\ overlay' = Mounted(overlay, doc')
        /\ lastOp' = KeyDownOp(key)
        /\ law' = NoLaw
        /\ UNCHANGED <<loads, exports, events, editor, probe>>

\* this key pressed anywhere in the window
KeyPressed(e) ==
    /\ LET after == appKeyDown(doc, editor, e) IN
        /\ doc' = after.doc
        /\ editor' = after.editor
    /\ overlay' = Mounted(overlay, doc')
    /\ lastOp' = "appKeyDown"
    /\ law' = NoLaw
    /\ UNCHANGED <<loads, exports, events, probe>>

\* a key pressed anywhere in the window
AppKeyDown == \E e \in AppKeys : KeyPressed(e)

EditNext ==
    \/ OpenPDF
    \/ HandlePageClick
    \/ HandleCanvasClick
    \/ HandleMouseDown
    \/ HandleMouseUp
    \/ HandleDoubleClick
    \/ HandleTextChange
    \/ HandleKeyDown
    \/ AppKeyDown

SpecEdit == Init /\ [][EditNext]_vars


\* C25 (SpecEdit): a click that creates a box, a text typed in edit mode and a
\* Delete key, whenever they change pages, push exactly one snapshot, the pages
\* before the action, and one undo after the action restores those pages.
SnapshotBeforeMutate ==
    [][(/\ lastOp' \in {"handlePageClick", "handleTextChange", "handleKeyDown"}
        /\ doc'.pages # doc.pages)
       => /\ doc'.history.past = Append(doc.history.past, [pages |-> doc.pages])
          /\ undo(doc').pages = doc.pages]_vars


(***************************************************************************)
(* SpecGesture: moving and resizing a box with the pointer                 *)
(***************************************************************************)
\* where the pointer goes while a button is held: back to where it was
\* pressed, and 40 to the left and 20 up
MouseMoveInputs == MouseDownInputs \cup {[x |-> 110, y |-> 60]}

\* the pointer is pressed on the resize handle of the selected box
HandleResizeMouseDown ==
    \E id \in IdsIn(doc.pages), e \in MouseDownInputs :
        /\ ~overlay.isDragging /\ ~overlay.isResizing
        /\ isSelected(doc, id) /\ ~isEditing(doc, id)
        /\ LET onHandle == handleResizeMouseDown(doc, overlay, id, e)
               after == IF onHandle.stopped THEN onHandle
                        ELSE handleMouseDown(onHandle.doc, onHandle.overlay, id, e)
           IN /\ doc' = after.doc
              /\ overlay' = after.overlay
        /\ lastOp' = "handleResizeMouseDown"
        /\ law' = NoLaw
        /\ UNCHANGED <<loads, exports, events, editor, probe>>

\* the pointer moves to e while an overlay listens on the window
PointerMovedTo(e) ==
    /\ overlay.isDragging \/ overlay.isResizing
    /\ LET after == handleMouseMove(doc, overlay, e) IN
        /\ doc' = after.doc
        /\ overlay' = after.overlay
    /\ lastOp' = "handleMouseMove"
    /\ law' = NoLaw
    /\ UNCHANGED <<loads, exports, events, editor, probe>>

HandleMouseMove == \E e \in MouseMoveInputs : PointerMovedTo(e)

GestureNext ==
    \/ OpenPDF
    \/ SetActiveTool
    \/ HandlePageClick
    \/ HandleCanvasClick
    \/ HandleMouseDown
    \/ HandleResizeMouseDown
    \/ HandleMouseMove
    \/ HandleMouseUp

SpecGesture == Init /\ [][GestureNext]_vars

\* the step starts a pointer gesture
GestureStarts ==
    /\ ~overlay.isDragging /\ ~overlay.isResizing
    /\ overlay'.isDragging \/ overlay'.isResizing

\* C26 (SpecGesture): each pointer gesture, move or resize, pushes exactly one
\* snapshot, the pages at its start, when it starts; a mouse-move pushes none.
OneSnapshotPerGesture ==
    [][/\ GestureStarts =>
            doc'.history.past = Append(doc.history.past, [pages |-> doc.pages])
       /\ lastOp' = "handleMouseMove" => doc'.history = doc.history]_vars


\* the step pushes one snapshot, the pages before it
PushesSnapshot ==
    doc'.history.past = Append(doc.history.past, [pages |-> doc.pages])

\* C27 as stated (SpecEdit): every change of the selected box made by a click
\* or a double-click on a box, by a click on the empty canvas or by the
\* creation of a box pushes a snapshot.
SelectionChangeSnapshots ==
    [][(/\ lastOp' \in {"handleMouseDown", "handleDoubleClick",
                        "handleCanvasClick", "handlePageClick"}
        /\ doc'.selection.selectedBoxId # doc.selection.selectedBoxId)
       => PushesSnapshot]_vars

\* C27 (SpecEdit): every change of the selected box made by a click or a
\* double-click on a box or by the creation of a box pushes one snapshot, the
\* pages before it; a click on the empty canvas deselects and leaves the
\* history as it is.
SelectingSnapshots ==
    [][/\ (/\ lastOp' \in {"handleMouseDown", "handleDoubleClick",
                           "handlePageClick"}
           /\ doc'.selection.selectedBoxId # doc.selection.selectedBoxId)
          => PushesSnapshot
       /\ lastOp' = "handleCanvasClick"
          => /\ \/ doc'.selection = [selectedBoxId |-> NULL, isEditing |-> FALSE]
                \/ doc'.selection = doc.selection
             /\ doc'.history = doc.history]_vars

\* b1, created by a click and deselected by a click on the canvas, has been
\* selected again by pressing the pointer on it
SelectingSnapshotsWitness ==
    /\ lastOp = "handleMouseDown"
    /\ doc.selection = [selectedBoxId |-> "b1", isEditing |-> FALSE]
    /\ Len(doc.history.past) = 2
    /\ doc.history.past[2].pages = doc.pages
    /\ doc.history.past[1].pages # doc.pages


\* the box a click has just created on the page at this position, as <<box>>
CreatedOn(p) ==
    IF /\ p \in DOMAIN doc.pages /\ p \in DOMAIN doc'.pages
       /\ Len(doc'.pages[p].textBoxes) = Len(doc.pages[p].textBoxes) + 1
    THEN <<doc'.pages[p].textBoxes[Len(doc'.pages[p].textBoxes)]>>
    ELSE <<>>

\* C28 (SpecFont): a click on a page with the text tool pushes one snapshot,
\* the pages before the click, and appends to that page one box of 200 by 50,
\* text "New Text", mode overlay, x and y not negative, font family, size and
\* colour the current defaults; the box is selected and edited. With the
\* select tool the click changes nothing.
CreateByClick ==
    [][lastOp' = "handlePageClick" =>
        IF editor.activeTool = "text" /\ doc.pages # <<>>
        THEN /\ PushesSnapshot
             /\ \E p \in DOMAIN doc.pages :
                 /\ CreatedOn(p) # <<>>
                 /\ LET box == CreatedOn(p)[1] IN
                     /\ doc'.pages =
                            [doc.pages EXCEPT ![p].textBoxes = Append(@, box)]
                     /\ box.id \notin IdsIn(doc.pages)
                     /\ box.pageIndex = p - 1
                     /\ box.width = 200 /\ box.height = 50
                     /\ box.text = "New Text" /\ box.mode = "overlay"
                     /\ box.x >= 0 /\ box.y >= 0
                     /\ box.fontFamily = editor.defaultFontFamily
                     /\ box.fontSize = editor.defaultFontSize
                     /\ box.color = editor.defaultColor
                     /\ doc'.selection = [selectedBoxId |-> box.id,
                                          isEditing |-> TRUE]
        ELSE doc' = doc]_vars

\* with the default font size set to 24, a click left of the page's edge has
\* appended b2 after b1 on the second page, at x = 0
CreateByClickWitness ==
    /\ lastOp = "handlePageClick"
    /\ editor.defaultFontSize = 24
    /\ doc.selection = [selectedBoxId |-> "b2", isEditing |-> TRUE]
    /\ Len(doc.pages) = 2
    /\ Len(doc.pages[2].textBoxes) = 2
    /\ doc.pages[2].textBoxes[1].id = "b1"
    /\ doc.pages[2].textBoxes[2].id = "b2"
    /\ doc.pages[2].textBoxes[2].x = 0
    /\ doc.pages[2].textBoxes[2].y = 300
    /\ doc.pages[2].textBoxes[2].fontSize = 24
    /\ Len(doc.history.past) = 2
    /\ Len(doc.history.past[2].pages[2].textBoxes) = 1


(***************************************************************************)
(* SpecStyle: the style controls of the Toolbar                            *)
(***************************************************************************)
\* updateFontFamily with the default left as it is
updateFontFamily_boxOnly(s, e, fontFamily) ==
    LET box == selectedBox(s) IN
    [doc |-> IF box # <<>>
             THEN updateTextBox(saveHistory(s), box[1].id,
                                [fontFamily |-> fontFamily])
             ELSE s,
     editor |-> e]

updateFontFamily(s, e, fontFamily) ==
    LET box == selectedBox(s) IN
    [doc |-> IF box # <<>>
             THEN updateTextBox(saveHistory(s), box[1].id,
                                [fontFamily |-> fontFamily])
             ELSE s,
     editor |-> setDefaultFontFamily(e, fontFamily)]

updateColor(s, e, color) ==
    LET box == selectedBox(s) IN
    [doc |-> IF box # <<>>
             THEN updateTextBox(saveHistory(s), box[1].id, [color |-> color])
             ELSE s,
     editor |-> setDefaultColor(e, color)]

updateTextAlign(s, e, textAlign) ==
    LET box == selectedBox(s) IN
    [doc |-> IF box # <<>>
             THEN updateTextBox(saveHistory(s), box[1].id,
                                [textAlign |-> textAlign])
             ELSE s,
     editor |-> e]

updateMode(s, e, mode) ==
    LET box == selectedBox(s) IN
    [doc |-> IF box # <<>>
             THEN updateTextBox(saveHistory(s), box[1].id, [mode |-> mode])
             ELSE s,
     editor |-> e]

\* what is chosen in the controls
FontFamilyInputs == {"Courier"}
ColorInputs == {"#ffffff"}
TextAlignInputs == {"center"}
ModeInputs == {"replace"}

UpdateFontFamily ==
    \E fontFamily \in FontFamilyInputs :
        /\ doc.isLoaded
        /\ Len(doc.history.past) < MaxFontPast
        /\ LET after == updateFontFamily(doc, editor, fontFamily) IN
            /\ doc' = after.doc
            /\ editor' = after.editor
        /\ probe' = [fn |-> "updateFontFamily", value |-> fontFamily]
        /\ lastOp' = "updateFontFamily"
        /\ law' = NoLaw
        /\ UNCHANGED <<loads, exports, events, overlay>>

UpdateColor ==
    \E color \in ColorInputs :
        /\ doc.isLoaded
        /\ Len(doc.history.past) < MaxFontPast
        /\ LET after == updateColor(doc, editor, color) IN
            /\ doc' = after.doc
            /\ editor' = after.editor
        /\ probe' = [fn |-> "updateColor", value |-> color]
        /\ lastOp' = "updateColor"
        /\ law' = NoLaw
        /\ UNCHANGED <<loads, exports, events, overlay>>

\* the alignment buttons are disabled while no box is selected
UpdateTextAlign ==
    \E textAlign \in TextAlignInputs :
        /\ doc.isLoaded
        /\ selectedBox(doc) # <<>>
        /\ Len(doc.history.past) < MaxFontPast
        /\ LET after == updateTextAlign(doc, editor, textAlign) IN
            /\ doc' = after.doc
            /\ editor' = after.editor
        /\ probe' = [fn |-> "updateTextAlign", value |-> textAlign]
        /\ lastOp' = "updateTextAlign"
        /\ law' = NoLaw
        /\ UNCHANGED <<loads, exports, events, overlay>>

\* the mode control is disabled while no box is selected
UpdateMode ==
    \E mode \in ModeInputs :
        /\ doc.isLoaded
        /\ selectedBox(doc) # <<>>
        /\ Len(doc.history.past) < MaxFontPast
        /\ LET after == updateMode(doc, editor, mode) IN
            /\ doc' = after.doc
            /\ editor' = after.editor
        /\ probe' = [fn |-> "updateMode", value |-> mode]
        /\ lastOp' = "updateMode"
        /\ law' = NoLaw
        /\ UNCHANGED <<loads, exports, events, overlay>>

\* a click on a page of a document that holds no box yet
ClickOnBlankDocument ==
    /\ IdsIn(doc.pages) = {}
    /\ HandlePageClick

StyleNext ==
    \/ LoadPDF
    \/ SetActiveTool
    \/ ClickOnBlankDocument
    \/ SelectTextBox
    \/ UpdateFontFamily
    \/ UpdateFontSize
    \/ UpdateColor
    \/ UpdateTextAlign
    \/ UpdateMode

SpecStyle == Init /\ [][StyleNext]_vars


\* the field of a box each style control of the Toolbar sets
StyleField ==
    [updateFontFamily |-> "fontFamily", updateFontSize |-> "fontSize",
     updateColor |-> "color", updateTextAlign |-> "textAlign",
     updateMode |-> "mode"]

\* the box a click with the text tool would create in this state, as <<box>>
NewBoxFor(s, e) ==
    boxWithId(handlePageClick(s, setActiveTool(e, "text"), 0,
                              [x |-> 0, y |-> 0], NoSuchId), NoSuchId)

\* a value as a default preference holds it
AsDefault(field, value) ==
    IF field = "fontSize" THEN Max(FontSizeMin, Min(FontSizeMax, value))
    ELSE value

\* the step sets this field of the selected box to this value after one
\* snapshot, or changes neither pages nor history when no box is selected
UpdatesSelectedBox(field, value) ==
    IF selectedBox(doc) # <<>>
    THEN /\ PushesSnapshot
         /\ DOMAIN doc'.pages = DOMAIN doc.pages
         /\ \A p \in DOMAIN doc.pages :
             /\ DOMAIN doc'.pages[p].textBoxes = DOMAIN doc.pages[p].textBoxes
             /\ \A k \in DOMAIN doc.pages[p].textBoxes :
                 LET b == doc.pages[p].textBoxes[k] IN
                 doc'.pages[p].textBoxes[k] =
                     IF b.id = doc.selection.selectedBoxId
                     THEN [b EXCEPT ![field] = value]
                     ELSE b
    ELSE doc'.pages = doc.pages /\ doc'.history = doc.history

\* C29 as stated (SpecStyle): a change of font family, font size, colour,
\* alignment or mode in the Toolbar sets the field of the selected box after
\* one snapshot, and in every case the next box created carries the value;
\* with no box selected pages and history stay.
StyleChangeSetsDefault ==
    [][lastOp' \in DOMAIN StyleField =>
        LET field == StyleField[lastOp'] IN
        /\ UpdatesSelectedBox(field, probe'.value)
        /\ doc'.pages # <<>> =>
              NewBoxFor(doc', editor')[1][field] = AsDefault(field, probe'.value)
      ]_vars

\* C29 (SpecStyle): a change of font family, font size, colour, alignment or
\* mode in the Toolbar sets the field of the selected box after one snapshot;
\* a change of font family, font size or colour also sets the default the
\* next box created carries, a box selected or not; a change of alignment or
\* mode leaves the preferences as they are, and the next box created is
\* aligned left in mode overlay; with no box selected pages and history stay.
StyleChange ==
    [][lastOp' \in DOMAIN StyleField =>
        LET field == StyleField[lastOp'] IN
        /\ UpdatesSelectedBox(field, probe'.value)
        /\ IF field \in {"fontFamily", "fontSize", "color"}
           THEN doc'.pages # <<>> =>
                  NewBoxFor(doc', editor')[1][field] =
                      AsDefault(field, probe'.value)
           ELSE /\ editor' = editor
                /\ doc'.pages # <<>> =>
                      /\ NewBoxFor(doc', editor')[1].textAlign = "left"
                      /\ NewBoxFor(doc', editor')[1].mode = "overlay"
      ]_vars

\* the colour of the selected box b1 and the default colour have both been
\* set by the colour control; the snapshot holds b1 in its former colour
StyleChangeWitness ==
    /\ lastOp = "updateColor"
    /\ selectedBox(doc) # <<>>
    /\ selectedBox(doc)[1].color = "#ffffff"
    /\ editor.defaultColor = "#ffffff"
    /\ Len(doc.history.past) = 2
    /\ \E p \in DOMAIN doc.pages :
        /\ Len(doc.history.past[2].pages[p].textBoxes) = 1
        /\ doc.history.past[2].pages[p].textBoxes[1].id = selectedBox(doc)[1].id
        /\ doc.history.past[2].pages[p].textBoxes[1].color = "#000000"


\* C30 (SpecEdit): a key pressed on the overlay of a box removes a box only
\* if that box is the selected one and is not being edited; the step then
\* pushes one snapshot, the pages before it, removes that box alone and
\* clears the selection. Any other key press on an overlay changes nothing.
DeleteKeyGuard ==
    [][lastOp' \in {KeyDownOp(key) : key \in OverlayKeys} =>
        IF doc'.pages # doc.pages
        THEN /\ doc.selection.selectedBoxId \in IdsIn(doc.pages)
             /\ ~doc.selection.isEditing
             /\ IdsIn(doc'.pages) =
                    IdsIn(doc.pages) \ {doc.selection.selectedBoxId}
             /\ PushesSnapshot
             /\ doc'.selection = [selectedBoxId |-> NULL, isEditing |-> FALSE]
        ELSE doc' = doc]_vars

\* the Delete key has removed b1, which was selected by pressing the pointer
\* on it and was not being edited: the last snapshot holds it, the selection
\* is cleared
DeleteKeyGuardWitness ==
    /\ lastOp = "handleKeyDown"
    /\ IdsIn(doc.pages) = {}
    /\ doc.selection = [selectedBoxId |-> NULL, isEditing |-> FALSE]
    /\ Len(doc.history.past) = 3
    /\ IdsIn(doc.history.past[3].pages) = {"b1"}
    /\ doc.history.past[2].pages = doc.history.past[3].pages


\* C31 (SpecEdit): Escape pressed while a box is in edit mode leaves
\* selection.isEditing false and pages as they were.
EscapeExitsEditMode ==
    [][(lastOp' = KeyDownOp("Escape") /\ doc.selection.isEditing)
       => /\ doc'.selection.isEditing = FALSE
          /\ doc'.pages = doc.pages]_vars


RECURSIVE InOrder(_)
InOrder(S) ==
    IF S = {} THEN <<>>
    ELSE LET least == CHOOSE n \in S : \A m \in S : n <= m
         IN <<least>> \o InOrder(S \ {least})

\* C33 (SpecDraw): the lines drawn for a box are the first wrapped lines of
\* its text, line j (from 0) with its baseline j times fontSize * 1.2 under
\* that of the first; no baseline is below the bottom edge pdfY of the box;
\* the lines stop at the first one that would be below it, and the export
\* still succeeds; a box with empty text has no text drawn.
LineLayout ==
    (probe.fn = "exportPDF" /\ probe.fault = "none"
                            /\ loadPDFDocument(probe.originalPdfData).ok
                            /\ Len(probe.pages)
                                 <= loadPDFDocument(probe.originalPdfData).numPages)
    => /\ probe.result.ok
       /\ \A i \in DOMAIN probe.pages :
            \A k \in DOMAIN probe.pages[i].textBoxes :
                LET box == probe.pages[i].textBoxes[k]
                    ops == probe.result.pages[i].ops
                    pdfY == probe.pages[i].height - box.y - box.height
                    firstY == Unit * (pdfY + box.height - box.fontSize - 2)
                    pitch == (box.fontSize * 12 * Unit) \div 10
                    texts == InOrder(OpsFor(ops, box.id, "drawText"))
                    lines == wrapText(Chars(box.text), box.width - 4,
                                      embedFont(getFontForFamily(box.fontFamily)),
                                      box.fontSize)
                IN /\ Len(texts) <= Len(lines)
                   /\ \A j \in DOMAIN texts :
                        /\ ops[texts[j]].text = lines[j]
                        /\ ops[texts[j]].y = firstY - (j - 1) * pitch
                        /\ ops[texts[j]].y >= Unit * pdfY
                   /\ Len(texts) < Len(lines) =>
                        firstY - Len(texts) * pitch < Unit * pdfY
                   /\ box.text = "" => texts = <<>>

\* "W W  W" in a box 30 wide and 20 high wraps to more than one line: the
\* first is drawn and the rest is dropped; the lines of another box on the
\* page are drawn 14.4 apart
LineLayoutWitness ==
    /\ probe.fn = "exportPDF"
    /\ probe.result.ok
    /\ LET ops == probe.result.pages[1].ops
           cut == probe.pages[1].textBoxes[1]
           whole == probe.pages[1].textBoxes[2]
           texts == InOrder(OpsFor(ops, whole.id, "drawText"))
       IN /\ Len(probe.pages[1].textBoxes) = 2
          /\ cut.id = "b7"
          /\ Cardinality(OpsFor(ops, cut.id, "drawText")) = 1
          /\ Len(wrapText(Chars(cut.text), cut.width - 4,
                          embedFont(getFontForFamily(cut.fontFamily)),
                          cut.fontSize)) > 1
          /\ Len(texts) = 2
          /\ ops[texts[1]].y - ops[texts[2]].y = (144 * Unit) \div 10


(***************************************************************************)
(* SpecDrag: one box moved at several zoom levels, with undo and redo       *)
(***************************************************************************)
\* the zoom levels set between two gestures: 100 % and 400 %
DragZooms == {ZoomInitial, ZoomMax}

\* SpecDrag: the pointer is pressed on a box while history.past holds fewer
\* snapshots than this
MaxDragPast == 2

\* the pointer is pressed on the box to move it
PressToMove ==
    /\ Len(doc.history.past) < MaxDragPast
    /\ HandleMouseDown

\* the zoom is set while no button is held
SetZoomBetweenGestures ==
    \E z \in DragZooms :
        /\ doc.isLoaded
        /\ ~overlay.isDragging /\ ~overlay.isResizing
        /\ doc' = setZoom(doc, z)
        /\ lastOp' = "setZoom"
        /\ law' = NoLaw
        /\ UNCHANGED appVars

\* t, Ctrl+Z or Ctrl+Shift+Z pressed anywhere in the window
ToolUndoRedoKey ==
    \E e \in {k \in AppKeys : k.key = "t" \/ k.ctrl} : KeyPressed(e)

\* a click on the first page of a document that holds no box yet
ClickOnFirstPage ==
    \E click \in ClickInputs :
        /\ IdsIn(doc.pages) = {}
        /\ PageClicked(0, click, "b1")

DragNext ==
    \/ OpenPDF
    \/ ToolUndoRedoKey
    \/ SetZoomBetweenGestures
    \/ ClickOnFirstPage
    \/ HandleCanvasClick
    \/ PressToMove
    \/ HandleMouseMove
    \/ HandleMouseUp

SpecDrag == Init /\ [][DragNext]_vars

\* every text box of pages
AllBoxes(pages) ==
    UNION {{pages[p].textBoxes[k] : k \in DOMAIN pages[p].textBoxes} :
           p \in DOMAIN pages}

\* C34 (SpecDrag): every text box has x >= 0 and y >= 0.
PositionLowerBound ==
    \A box \in AllBoxes(doc.pages) : box.x >= 0 /\ box.y >= 0

\* a box created at (0, 75) at 400 % is being dragged to the left and
\* upwards: it stands at (0, 70)
PositionLowerBoundWitness ==
    /\ lastOp = "handleMouseMove"
    /\ overlay.isDragging
    /\ doc.zoom = ZoomMax
    /\ \E box \in AllBoxes(doc.pages) :
            box.id = overlay.id /\ box.x = 0 /\ box.y = 70
    /\ doc.history.past # <<>>
    /\ \E box \in AllBoxes(doc.history.past[Len(doc.history.past)].pages) :
            box.id = overlay.id /\ box.x = 0 /\ box.y = 75


(***************************************************************************)
(* SpecResize: one box resized at several zoom levels, with undo and redo  *)
(***************************************************************************)
\* a double click on the box selects it
DoubleClickToSelect ==
    /\ Len(doc.history.past) < MaxDragPast
    /\ HandleDoubleClick

\* where the pointer goes from the resize handle: 240 to the left and 60 up
ResizeMoveInputs == {[x |-> -90, y |-> 20]}

\* the pointer moves while the resize handle is held
MoveWhileResizing == \E e \in ResizeMoveInputs : PointerMovedTo(e)

ResizeNext ==
    \/ OpenPDF
    \/ ToolUndoRedoKey
    \/ SetZoomBetweenGestures
    \/ ClickOnFirstPage
    \/ HandleCanvasClick
    \/ DoubleClickToSelect
    \/ HandleResizeMouseDown
    \/ MoveWhileResizing
    \/ HandleMouseUp

SpecResize == Init /\ [][ResizeNext]_vars

\* C35 (SpecResize): every text box has width >= 50 and height >= 20, and a
\* mouse-move of a resize gesture changes nothing in pages but the width and
\* the height of the box that is resized.
SizeLowerBound ==
    /\ [](\A box \in AllBoxes(doc.pages) : box.width >= 50 /\ box.height >= 20)
    /\ [][(lastOp' = "handleMouseMove" /\ overlay.isResizing)
          => /\ DOMAIN doc'.pages = DOMAIN doc.pages
             /\ \A p \in DOMAIN doc.pages :
                 /\ DOMAIN doc'.pages[p].textBoxes = DOMAIN doc.pages[p].textBoxes
                 /\ \A k \in DOMAIN doc.pages[p].textBoxes :
                     LET b == doc.pages[p].textBoxes[k]
                         after == doc'.pages[p].textBoxes[k]
                     IN IF b.id = overlay.id
                        THEN after = [b EXCEPT !.width = after.width,
                                               !.height = after.height]
                        ELSE after = b]_vars

\* the box created 200 by 50 at 400 % has been made smaller twice by 60 and
\* 15 and stands at its minimum height
SizeLowerBoundWitness ==
    /\ lastOp = "handleMouseMove"
    /\ overlay.isResizing
    /\ doc.zoom = ZoomMax
    /\ \E box \in AllBoxes(doc.pages) :
        /\ box.id = overlay.id
        /\ box.width = 80 /\ box.height = 20
        /\ box.text = "New Text"

(***************************************************************************)
(* SpecSelect: the handlers of SpecEdit and the store's clearDocument      *)
(***************************************************************************)
\* the document dropped from the store
CloseDocument ==
    /\ doc.isLoaded
    /\ doc' = clearDocument(doc)
    /\ overlay' = Mounted(overlay, doc')
    /\ lastOp' = "clearDocument"
    /\ law' = NoLaw
    /\ UNCHANGED <<loads, exports, events, editor, probe>>

SelectNext ==
    \/ EditNext
    \/ CloseDocument

SpecSelect == Init /\ [][SelectNext]_vars

\* C36 (SpecSelect): whatever the user did (created a box, selected one by a
\* press or a double click, deselected, deleted, undid, redid, loaded a file,
\* cleared the document), a selectedBoxId that is not null is the id of a box
\* in pages
SelectionExists ==
    doc.selection.selectedBoxId # NULL
        => doc.selection.selectedBoxId \in IdsIn(doc.pages)

\* an undo has just taken the only box from pages (the snapshot in future
\* still has it) and nothing is selected
SelectionExistsWitness ==
    /\ lastOp = "appKeyDown"
    /\ IdsIn(doc.pages) = {}
    /\ Len(doc.history.future) > 0
    /\ IdsIn(doc.history.future[1].pages) # {}
    /\ doc.selection.selectedBoxId = NULL

\* pages, past and future of a store state
Timeline(s) == <<s.pages, s.history.past, s.history.future>>

\* the number of snapshots the history holds
Snapshots(s) == Len(s.history.past) + Len(s.history.future)

\* C37 (SpecHistory): in every state with a snapshot in past, undo and then redo
\* give back pages, past and future as they were, and in every state with a
\* snapshot in future so do redo and then undo; a call of undo or of redo
\* leaves past.length + future.length as it was.
UndoRedoRoundTrip ==
    /\ [](/\ Len(doc.history.past) > 0 => Timeline(redo(undo(doc))) = Timeline(doc)
          /\ Len(doc.history.future) > 0 => Timeline(undo(redo(doc))) = Timeline(doc))
    /\ [][lastOp' \in {"undo", "redo"} => Snapshots(doc') = Snapshots(doc)]_vars

\* redo has just moved a snapshot after two calls of undo: past and future
\* hold a snapshot each, and the three values of pages differ
UndoRedoRoundTripWitness ==
    /\ lastOp = "redo"
    /\ Len(doc.history.past) >= 1
    /\ Len(doc.history.future) >= 1
    /\ doc.pages # doc.history.past[Len(doc.history.past)].pages
    /\ doc.pages # doc.history.future[1].pages
    /\ doc.history.past[Len(doc.history.past)] # doc.history.future[1]

(***************************************************************************)
(* SpecRace: files picked while a file is still being read.  law keeps the *)
(* file picked last and whether a read was in flight when it was picked.   *)
(***************************************************************************)
\* handleFileChange up to its await, for a file the user picked
PickFile ==
    \E file \in FileInputs :
        /\ Len(loads) < MaxLoads
        /\ loads' = handleFileChange(file, loads)
        /\ lastOp' = "handleFileChange"
        /\ law' = [phase |-> "picked", last |-> file, overlapped |-> Len(loads) > 0]
        /\ UNCHANGED <<doc, exports, events, editor, probe, overlay>>

\* handleFileChange after its await; the reads settle in any order
SettleFile ==
    \E i \in 1 .. Len(loads) :
        LET after == fileChangeSettled(doc, loads[i]) IN
        /\ doc' = after.doc
        /\ events' = after.events
        /\ loads' = RemoveAt(loads, i)
        /\ lastOp' = "fileChangeSettled"
        /\ UNCHANGED <<law, exports, editor, probe, overlay>>

RaceNext ==
    \/ PickFile
    \/ SettleFile

SpecRace == Init /\ [][RaceNext]_vars

\* C38 (SpecRace): when a file that loads was picked while the read of another
\* file was in flight and every read has settled, fileName, pdfData and pages
\* of the store are those of the file picked last.
LastSelectedWins ==
    (/\ loads = <<>>
     /\ law.phase = "picked"
     /\ law.overlapped
     /\ loadPDFFromFile(law.last).ok)
    => LET r == loadPDFFromFile(law.last) IN
        /\ doc.fileName = r.fileName
        /\ doc.pdfData = r.pdfData
        /\ doc.pages = r.pages

(***************************************************************************)
(* SpecButtons: the pointer events of one box.  A mouse has several        *)
(* buttons: onMouseDown is called for each button pressed, on the element  *)
(* under the pointer, whether or not another button is held.               *)
(***************************************************************************)
\* where the pointer goes from the place of a press: 160 to the left and 40
\* up, which from the resize handle of a new box is inside the box at its
\* minimum size
ButtonMoveInputs == {[x |-> -10, y |-> 40]}

\* a button pressed on the box, outside its resize handle: with no button
\* held, or when the pointer has left the handle it holds (dragStart is then
\* where the pointer is)
PressOnBox ==
    \E id \in IdsIn(doc.pages), e \in MouseDownInputs \cup ButtonMoveInputs :
        /\ ~overlay.isDragging
        /\ IF overlay.isResizing
           THEN id = overlay.id /\ e = overlay.dragStart /\ e \in ButtonMoveInputs
           ELSE e \in MouseDownInputs
        /\ Len(doc.history.past) < MaxDragPast
        /\ LET after == handleMouseDown(doc, overlay, id, e) IN
            /\ doc' = after.doc
            /\ overlay' = after.overlay
        /\ lastOp' = "handleMouseDown"
        /\ law' = NoLaw
        /\ UNCHANGED <<loads, exports, events, editor, probe>>

\* the pointer moves: the document has the overlay's listener only while the
\* overlay is dragging or resizing
MouseMoveOnDocument ==
    \E e \in ButtonMoveInputs :
        /\ doc.isLoaded
        /\ LET listening == overlay.isDragging \/ overlay.isResizing
               after == IF listening THEN handleMouseMove(doc, overlay, e)
                        ELSE [doc |-> doc, overlay |-> overlay]
           IN /\ doc' = after.doc
              /\ overlay' = after.overlay
        /\ lastOp' = "mousemove"
        /\ law' = NoLaw
        /\ UNCHANGED <<loads, exports, events, editor, probe>>

\* a button is released: the document has the overlay's listener only while
\* the overlay is dragging or resizing
MouseUpOnDocument ==
    /\ doc.isLoaded
    /\ overlay' = IF overlay.isDragging \/ overlay.isResizing
                  THEN handleMouseUp(overlay) ELSE overlay
    /\ lastOp' = "mouseup"
    /\ law' = NoLaw
    /\ UNCHANGED <<doc, loads, exports, events, editor, probe>>

ButtonsNext ==
    \/ OpenPDF
    \/ ToolUndoRedoKey
    \/ ClickOnFirstPage
    \/ HandleCanvasClick
    \/ PressOnBox
    \/ HandleResizeMouseDown
    \/ MouseMoveOnDocument
    \/ MouseUpOnDocument

SpecButtons == Init /\ [][ButtonsNext]_vars

\* the boxes of pages but the one with this id
OtherBoxes(pages, id) == {box \in AllBoxes(pages) : box.id # id}

\* the box with this id changed in these fields at most, no other box changed
ChangesOnly(id, fields) ==
    /\ OtherBoxes(doc'.pages, id) = OtherBoxes(doc.pages, id)
    /\ IdsIn(doc'.pages) = IdsIn(doc.pages)
    /\ \A before \in AllBoxes(doc.pages), after \in AllBoxes(doc'.pages) :
         (before.id = id /\ after.id = id)
            => \A f \in DOMAIN before \ fields : after[f] = before[f]

\* isDragging and isResizing are never both true
OneGestureAtATime == ~(overlay.isDragging /\ overlay.isResizing)

\* mouse-up ends the gesture; mouse-move changes x and y of the box dragged,
\* width and height of the box resized and nothing when there is no gesture;
\* mouse-down on a box that is edited changes nothing
GestureSteps ==
    /\ lastOp' = "mouseup" => ~overlay'.isDragging /\ ~overlay'.isResizing
    /\ lastOp' = "mousemove" =>
         /\ doc'.history = doc.history /\ doc'.selection = doc.selection
         /\ (~overlay.isDragging /\ ~overlay.isResizing) => doc'.pages = doc.pages
         /\ overlay.isDragging => ChangesOnly(overlay.id, {"x", "y"})
         /\ (overlay.isResizing /\ ~overlay.isDragging)
                => ChangesOnly(overlay.id, {"width", "height"})
    /\ (lastOp' = "handleMouseDown" /\ doc.selection.isEditing)
            => (doc' = doc /\ overlay' = overlay)

\* C39 (SpecButtons): isDragging and isResizing are never both true; mouse-up
\* leaves both false; mouse-move changes only x and y of a box while dragging,
\* only width and height while resizing and nothing while idle; mouse-down on
\* a box in edit mode starts no gesture, pushes no snapshot and leaves the
\* selection as it is.
GestureStateMachine == []OneGestureAtATime /\ [][GestureSteps]_vars

\* the steps of C39 without the exclusion of the two flags
GestureStepsHold == [][GestureSteps]_vars

\* lines.join(' ')
RECURSIVE Join(_)
Join(lines) ==
    IF lines = <<>> THEN <<>>
    ELSE IF Len(lines) = 1 THEN Head(lines)
    ELSE Head(lines) \o <<" ">> \o Join(Tail(lines))

\* words separated by single spaces: no space at either end, no two spaces in
\* a row
SingleSpaced(text) ==
    /\ text # <<>> => (Head(text) # " " /\ text[Len(text)] # " ")
    /\ \A i \in 1 .. Len(text) - 1 : ~(text[i] = " " /\ text[i + 1] = " ")

\* C40 (SpecWrap): for a text whose words are separated by single spaces, the
\* lines of wrapText joined by single spaces are the text.
WrapLosesNothing ==
    (probe.fn = "wrapText" /\ SingleSpaced(probe.text))
        => Join(probe.lines) = probe.text

\* a text of four words wrapped into three lines, the first of two words
WrapLosesNothingWitness ==
    /\ probe.fn = "wrapText"
    /\ SingleSpaced(probe.text)
    /\ Len(Split(probe.text)) = 4
    /\ Len(probe.lines) = 3
    /\ Len(Split(probe.lines[1])) = 2

====
